---------------------------- MODULE Spec2Model ----------------------------
(***************************************************************************)
(* PaisaGuardian fraud-detection backend: the learning store               *)
(* (learning_engine.py), the policy classifier (agent_policy.py), the      *)
(* action responder's blocked set (action_engine.py) and the request       *)
(* handlers of main.py that drive them.                                    *)
(*                                                                         *)
(* Scores are the integer points of the float scores of the code (all the  *)
(* comparisons of the code are on thresholds that are integers); the       *)
(* weight deltas are kept in hundredths (-0.01 is -1).  The write-only     *)
(* action log of ActionEngine._log_action is not part of the state.        *)
(***************************************************************************)
EXTENDS Integers, Sequences, FiniteSets, TLC

(***************************************************************************)
(* Bounds of the model.                                                    *)
(***************************************************************************)
MaxFeedback == 2
MixWindow == 2
MaxOverThreshold == 2
MaxSideReports == 1
MaxReportFeedback == 1
MaxAnalysisFeedback == 2
MaxScore == 160
MaxWeightFeedback == 3
MaxThreads == 3
MaxUrlSignals == 2
MaxEarlyAnalyses == 2
MaxOverCap == 2

(***************************************************************************)
(* Program constants.                                                      *)
(***************************************************************************)
fraud_report_threshold == 50

EntityTypes == {"urls", "domains", "upi_ids", "senders", "phone_numbers"}

SAFE == "safe"
FRAUD == "fraud"
UNSURE == "unsure"

(***************************************************************************)
(* Inputs.                                                                 *)
(***************************************************************************)
Entities == {"e1", "e2"}
Users == {"u1"}
\* entity_type strings a client may send: two of the five list keys and the
\* singular "url" that the API description of UserFeedback advertises and
\* that analyze_url passes; "url" is not a key of whitelist / blacklist.
TypeInputs == {"urls", "domains", "url"}
\* entity_type strings of the feedback calls
FeedbackTypes == {"urls", "url"}
Verdicts == {SAFE, FRAUD, UNSURE}
FeedbackScores == {10, 80}
QueryScores == {0, 50, 120}
ScoreRange == (0 - MaxScore)..MaxScore
\* base_risk_score values handed to the orchestrator: non-negative, and not
\* capped (0.6 * (url score + domain + html + redirect + 40) + 0.4 * combined)
BaseScores == {0, 39, 40, 69, 70, 99, 100, 120, 150}
\* context['platform']: the values of the Platform enum
Platforms == {"chrome", "android", "web", "unknown"}
\* context['type']: the values of the ThreatType enum and the other strings
\* determine_action looks for
SignalTypes == {"url", "sms", "upi", "transaction", "qr_code", "domain",
                "redirect", "payment", "unknown"}
\* context.get('intent_type'); "none" is Python's None
IntentTypes == {"collect", "pay", "none"}
\* false-positive rates handed to adjust_threshold, in hundredths
Rates == {0, 4, 5, 10, 15, 16, 100}
\* threads that each make one call into the engines
Threads == 1..MaxThreads

VARIABLES
    whitelist,           \* LearningEngine.whitelist: type -> set of entity ids
    blacklist,           \* LearningEngine.blacklist
    feedback_history,    \* LearningEngine.feedback_history (ledger)
    metrics,             \* LearningEngine.metrics
    weight_adjustments,  \* LearningEngine.weight_adjustments, in hundredths
    fraud_reports,       \* LearningEngine.fraud_reports: entity id -> ledger
    analysis_history,    \* LearningEngine.analysis_history
    user_settings,       \* LearningEngine.user_settings: user id -> settings
    disk,                \* the documents written by save_data; <<>>: none
    auto_blacklist_log,  \* the "Automatic blacklist" warnings logged so far
    blocked_entities,    \* ActionEngine.blocked_entities
    combiner_weights,    \* RiskCombiner.weights, in hundredths
    low_threshold,       \* AgentPolicy.low_threshold
    medium_threshold,    \* AgentPolicy.medium_threshold
    high_threshold,      \* AgentPolicy.high_threshold
    result,              \* what the last call returned to its caller
    lock,                \* LearningEngine._lock: 0 (free) or the holding thread
    threads              \* per thread: position, arguments, locals, return

vars == <<whitelist, blacklist, feedback_history, metrics, weight_adjustments,
          fraud_reports, analysis_history, user_settings, disk, auto_blacklist_log, blocked_entities,
          combiner_weights, low_threshold, medium_threshold, high_threshold, result,
          lock, threads>>

learningVars == <<whitelist, blacklist, feedback_history, metrics,
                  weight_adjustments, fraud_reports, analysis_history,
                  user_settings, disk, auto_blacklist_log>>
policyVars == <<low_threshold, medium_threshold, high_threshold>>
threadVars == <<lock, threads>>

Min(a, b) == IF a < b THEN a ELSE b
Max(a, b) == IF a > b THEN a ELSE b

(***************************************************************************)
(* LearningEngine                                                          *)
(***************************************************************************)
EmptyLists == [t \in EntityTypes |-> {}]

ZeroMetrics ==
    [total_feedbacks |-> 0, safe_feedbacks |-> 0, fraud_feedbacks |-> 0,
     false_positives |-> 0, false_negatives |-> 0,
     true_positives |-> 0, true_negatives |-> 0]

ZeroWeights == [rules_score |-> 0, nlp_score |-> 0, anomaly_score |-> 0]

check_whitelist(e, t) ==
    IF t \in DOMAIN whitelist THEN e \in whitelist[t] ELSE FALSE

check_blacklist(e, t) ==
    IF t \in DOMAIN blacklist THEN e \in blacklist[t] ELSE FALSE

\* adjust_risk_score with the two checks in the other order: the whitelist
\* adjustment is applied last and wins.
adjust_risk_score_whitelist_last(e, t, s) ==
    LET b == IF check_blacklist(e, t)
             THEN [score |-> Min(100, s + 60), reasons |-> <<"Blacklisted">>]
             ELSE [score |-> s, reasons |-> <<>>]
    IN  IF check_whitelist(e, t)
        THEN [score |-> Max(0, s - 50),
              reasons |-> Append(b.reasons, "Whitelisted")]
        ELSE b

\* (adjusted_score, reasons) of adjust_risk_score.
\* adjust_risk_score in which the whitelist adjustment is final.
adjust_risk_score_whitelist_first(e, t, s) ==
    IF check_whitelist(e, t)
    THEN [score |-> Max(0, s - 50), reasons |-> <<"Whitelisted">>]
    ELSE IF check_blacklist(e, t)
    THEN [score |-> Min(100, s + 60), reasons |-> <<"Blacklisted">>]
    ELSE [score |-> s, reasons |-> <<>>]

adjust_risk_score(e, t, s) ==
    LET w == IF check_whitelist(e, t)
             THEN [score |-> Max(0, s - 50), reasons |-> <<"Whitelisted">>]
             ELSE [score |-> s, reasons |-> <<>>]
    IN  IF check_blacklist(e, t)
        THEN [score |-> Min(100, s + 60),
              reasons |-> Append(w.reasons, "Blacklisted")]
        ELSE w

\* _adjust_weights_for_false_positive with the deltas kept above -0.05.
_adjust_weights_for_false_positive_clamped(w, s) ==
    IF s >= 70
    THEN [w EXCEPT !.nlp_score = Max(0 - 5, @ - 1),
                   !.rules_score = Max(0 - 5, @ - 1)]
    ELSE IF s >= 40
    THEN [w EXCEPT !.rules_score = Max(0 - 5, @ - 2)]
    ELSE w

_adjust_weights_for_false_positive(w, s) ==
    IF s >= 70
    THEN [w EXCEPT !.nlp_score = @ - 1, !.rules_score = @ - 1]
    ELSE IF s >= 40
    THEN [w EXCEPT !.rules_score = @ - 2]
    ELSE w

_adjust_weights_for_false_negative(w, s) ==
    IF s < 20
    THEN [w EXCEPT !.nlp_score = @ + 2, !.rules_score = @ + 2,
                   !.anomaly_score = @ + 1]
    ELSE IF s < 40
    THEN [w EXCEPT !.nlp_score = @ + 1, !.rules_score = @ + 1]
    ELSE w

\* was_flagged_as_fraud with the HIGH boundary in place of the MEDIUM one.
was_flagged_as_fraud_high(original_risk_score) == original_risk_score >= 70

\* "was_flagged_as_fraud = original_risk_score >= 40"
was_flagged_as_fraud(original_risk_score) == original_risk_score >= 40

\* "list(v)" of a set: its members in some order.
list_of(S) ==
    CHOOSE q \in [1..Cardinality(S) -> S] : {q[i] : i \in DOMAIN q} = S

\* "set(v)" of a JSON array.
set_of(q) == {q[i] : i \in DOMAIN q}

\* The documents save_data writes, taken from the state after the update:
\* the sets of whitelist.json and blacklist.json are written as arrays.
save_data(wl, bl, fh, m, wa, fr, ah, us) ==
    [whitelist |-> [k \in DOMAIN wl |-> list_of(wl[k])],
     blacklist |-> [k \in DOMAIN bl |-> list_of(bl[k])],
     feedback_history |-> fh,
     metrics |-> m, weight_adjustments |-> wa, fraud_reports |-> fr,
     analysis_history |-> ah, user_settings |-> us]

\* load_data that does not read fraud_reports.json.
load_data_without_reports(d) ==
    [whitelist |-> [k \in DOMAIN d.whitelist |-> set_of(d.whitelist[k])],
     blacklist |-> [k \in DOMAIN d.blacklist |-> set_of(d.blacklist[k])],
     feedback_history |-> d.feedback_history,
     metrics |-> d.metrics @@ ZeroMetrics,
     weight_adjustments |-> d.weight_adjustments @@ ZeroWeights,
     fraud_reports |-> [e \in DOMAIN d.fraud_reports |-> <<>>],
     analysis_history |-> d.analysis_history,
     user_settings |-> d.user_settings]

\* The fields of a fresh engine after load_data has read the documents d
\* (every file exists once save_data has run): the arrays become sets, the
\* metrics and the weight deltas update the defaults of __init__.
load_data(d) ==
    [whitelist |-> [k \in DOMAIN d.whitelist |-> set_of(d.whitelist[k])],
     blacklist |-> [k \in DOMAIN d.blacklist |-> set_of(d.blacklist[k])],
     feedback_history |-> d.feedback_history,
     metrics |-> d.metrics @@ ZeroMetrics,
     weight_adjustments |-> d.weight_adjustments @@ ZeroWeights,
     fraud_reports |-> d.fraud_reports,
     analysis_history |-> d.analysis_history,
     user_settings |-> d.user_settings]

\* The dictionary process_feedback returns.
process_feedback_result(e, t, v, s) ==
    LET flagged == was_flagged_as_fraud(s)
        wl == v = SAFE /\ t \in DOMAIN whitelist
        bl == v = FRAUD /\ t \in DOMAIN blacklist
    IN  [entity_id |-> e, entity_type |-> t, feedback |-> v,
         added_to_whitelist |-> wl,
         added_to_blacklist |-> bl,
         learning_applied |-> (v = SAFE /\ flagged) \/ (v = FRAUD /\ ~flagged),
         message |-> IF wl THEN "Added to whitelist"
                     ELSE IF bl THEN "Added to blacklist" ELSE ""]

\* process_feedback that counts a feedback in total_feedbacks only when its
\* verdict is safe or fraud.
process_feedback_counting_verdicts(e, t, v, s, u) ==
    LET flagged == was_flagged_as_fraud(s)
        m1 == IF v \in {SAFE, FRAUD}
              THEN [metrics EXCEPT !.total_feedbacks = @ + 1]
              ELSE metrics
        m2 == IF v = SAFE
              THEN [m1 EXCEPT !.safe_feedbacks = @ + 1,
                              !.false_positives = IF flagged THEN @ + 1 ELSE @,
                              !.true_negatives = IF flagged THEN @ ELSE @ + 1]
              ELSE IF v = FRAUD
              THEN [m1 EXCEPT !.fraud_feedbacks = @ + 1,
                              !.true_positives = IF flagged THEN @ + 1 ELSE @,
                              !.false_negatives = IF flagged THEN @ ELSE @ + 1]
              ELSE m1
        entry == [entity_id |-> e, entity_type |-> t, feedback |-> v,
                  original_risk_score |-> s, user_id |-> u]
    IN  /\ metrics' = m2
        /\ whitelist' = IF v = SAFE /\ t \in DOMAIN whitelist
                        THEN [whitelist EXCEPT ![t] = @ \cup {e}]
                        ELSE whitelist
        /\ blacklist' = IF v = FRAUD /\ t \in DOMAIN blacklist
                        THEN [blacklist EXCEPT ![t] = @ \cup {e}]
                        ELSE blacklist
        /\ weight_adjustments' =
              IF v = SAFE /\ flagged
              THEN _adjust_weights_for_false_positive(weight_adjustments, s)
              ELSE IF v = FRAUD /\ ~flagged
              THEN _adjust_weights_for_false_negative(weight_adjustments, s)
              ELSE weight_adjustments
        /\ feedback_history' = Append(feedback_history, entry)
        /\ disk' = IF Len(feedback_history') % 10 = 0
                   THEN save_data(whitelist', blacklist', feedback_history',
                                  metrics', weight_adjustments', fraud_reports,
                                  analysis_history, user_settings)
                   ELSE disk
        /\ UNCHANGED <<fraud_reports, analysis_history, user_settings,
                       auto_blacklist_log>>

\* The state change of process_feedback (under the engine lock).
process_feedback(e, t, v, s, u) ==
    LET flagged == was_flagged_as_fraud(s)
        m1 == [metrics EXCEPT !.total_feedbacks = @ + 1]
        m2 == IF v = SAFE
              THEN [m1 EXCEPT !.safe_feedbacks = @ + 1,
                              !.false_positives = IF flagged THEN @ + 1 ELSE @,
                              !.true_negatives = IF flagged THEN @ ELSE @ + 1]
              ELSE IF v = FRAUD
              THEN [m1 EXCEPT !.fraud_feedbacks = @ + 1,
                              !.true_positives = IF flagged THEN @ + 1 ELSE @,
                              !.false_negatives = IF flagged THEN @ ELSE @ + 1]
              ELSE m1
        entry == [entity_id |-> e, entity_type |-> t, feedback |-> v,
                  original_risk_score |-> s, user_id |-> u]
    IN  /\ metrics' = m2
        /\ whitelist' = IF v = SAFE /\ t \in DOMAIN whitelist
                        THEN [whitelist EXCEPT ![t] = @ \cup {e}]
                        ELSE whitelist
        /\ blacklist' = IF v = FRAUD /\ t \in DOMAIN blacklist
                        THEN [blacklist EXCEPT ![t] = @ \cup {e}]
                        ELSE blacklist
        /\ weight_adjustments' =
              IF v = SAFE /\ flagged
              THEN _adjust_weights_for_false_positive(weight_adjustments, s)
              ELSE IF v = FRAUD /\ ~flagged
              THEN _adjust_weights_for_false_negative(weight_adjustments, s)
              ELSE weight_adjustments
        /\ feedback_history' = Append(feedback_history, entry)
        /\ disk' = IF Len(feedback_history') % 10 = 0
                   THEN save_data(whitelist', blacklist', feedback_history',
                                  metrics', weight_adjustments', fraud_reports,
                                  analysis_history, user_settings)
                   ELSE disk
        /\ UNCHANGED <<fraud_reports, analysis_history, user_settings,
                       auto_blacklist_log>>

\* Number of keys of the fraud_reports dictionary: a key is created together
\* with its first report.
NumReportedEntities(fr) == Cardinality({e \in DOMAIN fr : Len(fr[e]) > 0})

\* The threshold test with > in place of >=.
threshold_reached_strict(count) == count > fraud_report_threshold

\* "if report_count >= self.fraud_report_threshold"
threshold_reached(count) == count >= fraud_report_threshold

\* The dictionary report_fraud returns, given the ledger after the append.
report_fraud_result(e, t, count) ==
    LET reached == threshold_reached(count)
        known == t \in DOMAIN blacklist
        fresh == reached /\ known /\ e \notin blacklist[t]
    IN  [entity_id |-> e, entity_type |-> t, report_count |-> count,
         threshold |-> fraud_report_threshold,
         blacklisted |-> reached /\ known,
         message |-> IF fresh THEN "automatically blacklisted"
                     ELSE IF reached /\ known THEN "already blacklisted"
                     ELSE "submitted"]

\* report_fraud that keeps one report per user and entity.
report_fraud_once_per_user(e, t, u) ==
    LET report == [entity_id |-> e, entity_type |-> t, user_id |-> u]
        ledger == IF \E i \in DOMAIN fraud_reports[e] :
                         fraud_reports[e][i].user_id = u
                  THEN fraud_reports[e]
                  ELSE Append(fraud_reports[e], report)
        report_count == Len(ledger)
        auto == /\ threshold_reached(report_count)
                /\ t \in DOMAIN blacklist
                /\ e \notin blacklist[t]
    IN  /\ fraud_reports' = [fraud_reports EXCEPT ![e] = ledger]
        /\ blacklist' = IF auto
                        THEN [blacklist EXCEPT ![t] = @ \cup {e}]
                        ELSE blacklist
        /\ auto_blacklist_log' =
              IF auto
              THEN Append(auto_blacklist_log,
                          [entity_id |-> e, entity_type |-> t,
                           report_count |-> report_count])
              ELSE auto_blacklist_log
        /\ disk' = IF NumReportedEntities(fraud_reports') % 10 = 0
                   THEN save_data(whitelist, blacklist', feedback_history,
                                  metrics, weight_adjustments, fraud_reports',
                                  analysis_history, user_settings)
                   ELSE disk
        /\ UNCHANGED <<whitelist, feedback_history, metrics,
                       weight_adjustments, analysis_history, user_settings>>

\* The state change of report_fraud (under the engine lock).
report_fraud(e, t, u) ==
    LET report == [entity_id |-> e, entity_type |-> t, user_id |-> u]
        ledger == Append(fraud_reports[e], report)
        report_count == Len(ledger)
        auto == /\ threshold_reached(report_count)
                /\ t \in DOMAIN blacklist
                /\ e \notin blacklist[t]
    IN  /\ fraud_reports' = [fraud_reports EXCEPT ![e] = ledger]
        /\ blacklist' = IF auto
                        THEN [blacklist EXCEPT ![t] = @ \cup {e}]
                        ELSE blacklist
        /\ auto_blacklist_log' =
              IF auto
              THEN Append(auto_blacklist_log,
                          [entity_id |-> e, entity_type |-> t,
                           report_count |-> report_count])
              ELSE auto_blacklist_log
        /\ disk' = IF NumReportedEntities(fraud_reports') % 10 = 0
                   THEN save_data(whitelist, blacklist', feedback_history,
                                  metrics, weight_adjustments, fraud_reports',
                                  analysis_history, user_settings)
                   ELSE disk
        /\ UNCHANGED <<whitelist, feedback_history, metrics,
                       weight_adjustments, analysis_history, user_settings>>

(***************************************************************************)
(* AgentPolicy                                                             *)
(***************************************************************************)
LOW == "low"
MEDIUM == "medium"
HIGH == "high"
CRITICAL == "critical"
RiskLevels == {LOW, MEDIUM, HIGH, CRITICAL}

ALLOW == "allow"
MONITOR == "monitor"
WARN == "warn"
CONFIRM == "confirm"
BLOCK == "block"
ABORT_TRANSACTION == "abort"
REDIRECT == "redirect"
DISABLE_ACTION == "disable"

\* classify_risk with the boundaries given to the lower level (<=).
classify_risk_inclusive(score) ==
    IF score <= low_threshold THEN LOW
    ELSE IF score <= medium_threshold THEN MEDIUM
    ELSE IF score <= high_threshold THEN HIGH
    ELSE CRITICAL

classify_risk(score) ==
    IF score < low_threshold THEN LOW
    ELSE IF score < medium_threshold THEN MEDIUM
    ELSE IF score < high_threshold THEN HIGH
    ELSE CRITICAL

\* determine_action with the chrome test ahead of the collect test.
determine_action_chrome_first(risk_level, platform, transaction_type, intent_type) ==
    IF risk_level = LOW THEN MONITOR
    ELSE IF risk_level = MEDIUM
    THEN IF transaction_type \in {"upi", "payment", "transaction"}
         THEN CONFIRM ELSE WARN
    ELSE IF risk_level = HIGH
    THEN IF platform = "chrome" THEN REDIRECT
         ELSE IF transaction_type = "upi" /\ intent_type = "collect"
         THEN ABORT_TRANSACTION
         ELSE BLOCK
    ELSE IF platform = "chrome" THEN REDIRECT
         ELSE IF transaction_type = "upi" THEN ABORT_TRANSACTION
         ELSE BLOCK

\* determine_action with the CRITICAL branch a copy of the HIGH branch.
determine_action_critical_as_high(risk_level, platform, transaction_type, intent_type) ==
    IF risk_level = LOW THEN MONITOR
    ELSE IF risk_level = MEDIUM
    THEN IF transaction_type \in {"upi", "payment", "transaction"}
         THEN CONFIRM ELSE WARN
    ELSE IF transaction_type = "upi" /\ intent_type = "collect"
         THEN ABORT_TRANSACTION
         ELSE IF platform = "chrome" THEN REDIRECT
         ELSE BLOCK

\* determine_action with LOW allowed outright and only upi confirmed.
determine_action_lenient(risk_level, platform, transaction_type, intent_type) ==
    IF risk_level = LOW THEN ALLOW
    ELSE IF risk_level = MEDIUM
    THEN IF transaction_type = "upi" THEN CONFIRM ELSE WARN
    ELSE IF risk_level = HIGH
    THEN IF transaction_type = "upi" /\ intent_type = "collect"
         THEN ABORT_TRANSACTION
         ELSE IF platform = "chrome" THEN REDIRECT
         ELSE BLOCK
    ELSE IF transaction_type = "upi" THEN ABORT_TRANSACTION
         ELSE IF platform = "chrome" THEN REDIRECT
         ELSE BLOCK

determine_action(risk_level, platform, transaction_type, intent_type) ==
    IF risk_level = LOW THEN MONITOR
    ELSE IF risk_level = MEDIUM
    THEN IF transaction_type \in {"upi", "payment", "transaction"}
         THEN CONFIRM ELSE WARN
    ELSE IF risk_level = HIGH
    THEN IF transaction_type = "upi" /\ intent_type = "collect"
         THEN ABORT_TRANSACTION
         ELSE IF platform = "chrome" THEN REDIRECT
         ELSE BLOCK
    ELSE IF transaction_type = "upi" THEN ABORT_TRANSACTION
         ELSE IF platform = "chrome" THEN REDIRECT
         ELSE BLOCK

\* classify_and_act that also blocks what it asks to confirm.
classify_and_act_blocking_confirm(score, platform, transaction_type, intent_type) ==
    LET risk_level == classify_risk(score)
        action == determine_action(risk_level, platform, transaction_type,
                                   intent_type)
    IN  [risk_level |-> risk_level,
         action |-> action,
         should_block |-> action \in {BLOCK, ABORT_TRANSACTION, REDIRECT,
                                      CONFIRM},
         requires_confirmation |-> action \in {CONFIRM, WARN}]

\* The dictionary classify_and_act returns (the message is left out).
classify_and_act(score, platform, transaction_type, intent_type) ==
    LET risk_level == classify_risk(score)
        action == determine_action(risk_level, platform, transaction_type,
                                   intent_type)
    IN  [risk_level |-> risk_level,
         action |-> action,
         should_block |-> action \in {BLOCK, ABORT_TRANSACTION, REDIRECT},
         requires_confirmation |-> action \in {CONFIRM, WARN}]

\* adjust_threshold without the caps 75 / 105 and the floors 65 / 95.
adjust_threshold_unbounded(false_positive_rate) ==
    IF false_positive_rate > 15
    THEN /\ medium_threshold' = medium_threshold + 5
         /\ high_threshold' = high_threshold + 5
         /\ UNCHANGED low_threshold
    ELSE IF false_positive_rate < 5
    THEN /\ medium_threshold' = medium_threshold - 5
         /\ high_threshold' = high_threshold - 5
         /\ UNCHANGED low_threshold
    ELSE UNCHANGED <<low_threshold, medium_threshold, high_threshold>>

adjust_threshold(false_positive_rate) ==
    IF false_positive_rate > 15
    THEN /\ medium_threshold' = Min(75, medium_threshold + 5)
         /\ high_threshold' = Min(105, high_threshold + 5)
         /\ UNCHANGED low_threshold
    ELSE IF false_positive_rate < 5
    THEN /\ medium_threshold' = Max(65, medium_threshold - 5)
         /\ high_threshold' = Max(95, high_threshold - 5)
         /\ UNCHANGED low_threshold
    ELSE UNCHANGED <<low_threshold, medium_threshold, high_threshold>>

(***************************************************************************)
(* ActionEngine                                                            *)
(***************************************************************************)
is_blocked(e) == e \in blocked_entities

\* unblock that leaves the set as it is.
unblock_nothing(e) == blocked_entities

unblock(e) == blocked_entities \ {e}

\* decide_and_act: the action response, and the entity joins the blocked
\* set when the response says should_block.
decide_and_act_response(platform, threat_type, risk_score, entity_id, intent_type) ==
    LET decision == classify_and_act(risk_score, platform, threat_type,
                                     intent_type)
    IN  [action |-> decision.action,
         risk_level |-> decision.risk_level,
         risk_score |-> risk_score,
         should_block |-> decision.should_block,
         requires_confirmation |-> decision.requires_confirmation,
         entity_id |-> entity_id]

decide_and_act(platform, threat_type, risk_score, entity_id, intent_type) ==
    blocked_entities' =
        IF decide_and_act_response(platform, threat_type, risk_score,
                                   entity_id, intent_type).should_block
        THEN blocked_entities \cup {entity_id}
        ELSE blocked_entities

(***************************************************************************)
(* main.py: POST /feedback                                                 *)
(***************************************************************************)
\* unblocked tells whether the handler took its unblock branch.
submit_feedback(e, t, v, s, u) ==
    /\ process_feedback(e, t, v, s, u)
    /\ blocked_entities' = IF v = SAFE /\ is_blocked(e)
                           THEN unblock(e) ELSE blocked_entities
    /\ result' = [op |-> "submit_feedback", status |-> 200,
                  entity_id |-> e, entity_type |-> t, feedback |-> v,
                  original_risk_score |-> s,
                  unblocked |-> v = SAFE /\ is_blocked(e),
                  response |-> process_feedback_result(e, t, v, s)]
    /\ UNCHANGED <<combiner_weights, policyVars>>

(***************************************************************************)
(* main.py: POST /report/fraud                                             *)
(***************************************************************************)
valid_types == {"phone_numbers", "upi_ids", "urls", "senders", "domains"}

\* The endpoint without its entity_type validation.
report_fraud_endpoint_unvalidated(e, t, u) ==
    /\ report_fraud(e, t, u)
    /\ result' = [op |-> "report_fraud", status |-> 200,
                  entity_id |-> e, entity_type |-> t,
                  response |-> report_fraud_result(
                                   e, t, Len(fraud_reports[e]) + 1)]
    /\ UNCHANGED <<blocked_entities, combiner_weights, policyVars>>

report_fraud_endpoint(e, t, u) ==
    IF t \notin valid_types
    THEN /\ result' = [op |-> "report_fraud", status |-> 400,
                       entity_id |-> e, entity_type |-> t]
         /\ UNCHANGED <<learningVars, blocked_entities, combiner_weights,
                        policyVars>>
    ELSE /\ report_fraud(e, t, u)
         /\ result' = [op |-> "report_fraud", status |-> 200,
                       entity_id |-> e, entity_type |-> t,
                       response |-> report_fraud_result(
                                        e, t, Len(fraud_reports[e]) + 1)]
         /\ UNCHANGED <<blocked_entities, combiner_weights, policyVars>>

(***************************************************************************)
(* main.py: orchestrate_agentic_analysis and its caller POST /analyze/url  *)
(***************************************************************************)
\* RiskCombiner.__init__: the default weights, in hundredths.
DefaultWeights == [rules_score |-> 50, nlp_score |-> 30, anomaly_score |-> 20]

\* RiskCombiner.combine_scores under the weight map w; the result is in
\* hundredths of a point.  A name that w does not hold weighs 0.1.
combine_scores(rules_score, nlp_score, anomaly_score, domain_score, w) ==
    rules_score * w.rules_score + nlp_score * w.nlp_score
        + anomaly_score * w.anomaly_score
        + domain_score * (IF "domain_score" \in DOMAIN w
                          THEN w["domain_score"] ELSE 10)

\* update_weights({k: 0.50 + v for k, v in weight_adjustments.items()})
updated_weights(wa) ==
    [k \in DOMAIN combiner_weights |->
        IF k \in DOMAIN wa THEN 50 + wa[k] ELSE combiner_weights[k]]

\* The dictionary orchestrate_agentic_analysis returns.
orchestrate_result(entity_id, entity_type, base_risk_score, platform, threat_type, intent_type) ==
    LET adjusted == adjust_risk_score(entity_id, entity_type, base_risk_score)
    IN  [original_score |-> base_risk_score,
         adjusted_score |-> adjusted.score,
         action_response |->
             decide_and_act_response(platform, threat_type, adjusted.score,
                                     entity_id, intent_type),
         learning_applied |-> Len(adjusted.reasons) > 0]

orchestrate_agentic_analysis(entity_id, entity_type, base_risk_score, platform, threat_type, intent_type) ==
    LET adjusted == adjust_risk_score(entity_id, entity_type, base_risk_score)
    IN  /\ combiner_weights' = updated_weights(weight_adjustments)
        /\ decide_and_act(platform, threat_type, adjusted.score, entity_id,
                          intent_type)

\* "adjusted_score = agentic_result['adjusted_score']" without the min.
response_score_uncapped(adjusted_score) == adjusted_score

\* "adjusted_score = min(agentic_result['adjusted_score'], 100)"
response_score(adjusted_score) == Min(adjusted_score, 100)

\* analyze_url, reduced to what it hands to orchestrate_agentic_analysis and
\* what it reports: the entity type is the literal 'url', the platform is
\* chrome, the threat type is url and additional_data has no intent_type.
\* A request that carries QR data never gets that far: the name
\* analyze_qr_code is rebound by the /analyze/qr handler defined later in
\* main.py, the call returns a coroutine, unpacking it raises, and the
\* handler answers 500 before any state is touched.
\* analyze_comprehensive, and with it the combine of the request, runs before
\* orchestrate_agentic_analysis: weights_used is the weight map the combiner
\* holds when the handler starts.
\* risk_scoring.get_risk_level: the level of the response.
get_risk_level(risk_score) ==
    IF risk_score >= 75 THEN "critical"
    ELSE IF risk_score >= 50 THEN "high"
    ELSE IF risk_score >= 25 THEN "medium"
    ELSE "low"

analyze_url(url, final_score, has_qr) ==
    IF has_qr
    THEN /\ result' = [op |-> "analyze_url", status |-> 500,
                       entity_id |-> url, entity_type |-> "url"]
         /\ UNCHANGED <<learningVars, policyVars, blocked_entities,
                        combiner_weights>>
    ELSE LET agentic_result ==
                 orchestrate_result(url, "url", final_score, "chrome",
                                    "url", "none")
         IN  /\ orchestrate_agentic_analysis(url, "url", final_score,
                                             "chrome", "url", "none")
             /\ result' = [op |-> "analyze_url", status |-> 200,
                           entity_id |-> url, entity_type |-> "url",
                           agentic_result |-> agentic_result,
                           weights_used |-> combiner_weights,
                           classified_score |->
                               agentic_result.action_response.risk_score,
                           risk_score |->
                               response_score(agentic_result.adjusted_score),
                           risk_level |->
                               get_risk_level(response_score(
                                   agentic_result.adjusted_score)),
                           is_safe |->
                               response_score(agentic_result.adjusted_score)
                                   < 40]
             /\ UNCHANGED <<learningVars, policyVars>>

(***************************************************************************)
(* Initial state: a fresh data directory and the default policy.           *)
(***************************************************************************)
Init ==
    /\ whitelist = EmptyLists
    /\ blacklist = EmptyLists
    /\ feedback_history = <<>>
    /\ metrics = ZeroMetrics
    /\ weight_adjustments = ZeroWeights
    /\ fraud_reports = [e \in Entities |-> <<>>]
    /\ analysis_history = <<>>
    /\ user_settings = <<>>
    /\ disk = <<>>
    /\ auto_blacklist_log = <<>>
    /\ blocked_entities = {}
    /\ combiner_weights = DefaultWeights
    /\ low_threshold = 40
    /\ medium_threshold = 70
    /\ high_threshold = 100
    /\ result = [op |-> "none"]
    /\ lock = 0
    /\ threads = [th \in Threads |-> [pc |-> "idle"]]

SubmitFeedback ==
    \E e \in Entities, t \in FeedbackTypes, v \in Verdicts,
       s \in FeedbackScores, u \in Users :
        /\ Len(feedback_history) < MaxFeedback
        /\ submit_feedback(e, t, v, s, u)
        /\ UNCHANGED threadVars

\* A caller reads learning_engine.adjust_risk_score(e, t, s).
AdjustRiskScore ==
    \E e \in Entities, t \in FeedbackTypes, s \in QueryScores :
        /\ result' = [op |-> "adjust_risk_score", entity_id |-> e,
                      entity_type |-> t, original_score |-> s,
                      adjusted_score |-> adjust_risk_score(e, t, s).score,
                      reasons |-> adjust_risk_score(e, t, s).reasons]
        /\ UNCHANGED <<learningVars, blocked_entities, combiner_weights,
                       policyVars, threadVars>>

\* POST /report/fraud.  One entity at a time is driven from no report at all
\* up to and past the threshold.  Its reports carry the type of its first
\* report, except within MixWindow reports of the threshold and after it,
\* where every valid type may follow; the other entities receive at most
\* MaxSideReports reports.
ReportFraud ==
    \E e \in Entities, t \in TypeInputs, u \in Users :
        /\ Len(fraud_reports[e]) < fraud_report_threshold + MaxOverThreshold
        /\ (/\ t \in valid_types
            /\ Len(fraud_reports[e]) > 0
            /\ t # fraud_reports[e][1].entity_type)
           => Len(fraud_reports[e]) + 1 >= fraud_report_threshold - MixWindow
        /\ Len(fraud_reports[e]) >= MaxSideReports =>
              \A o \in Entities \ {e} :
                  Len(fraud_reports[o]) <= MaxSideReports
        /\ report_fraud_endpoint(e, t, u)
        /\ UNCHANGED threadVars

\* POST /feedback while reports come in.
ReportFeedbackTypes == {"urls"}
ReportFeedbackVerdicts == {SAFE, FRAUD}
ReportFeedbackScores == {50}

FeedbackDuringReports ==
    \E e \in Entities, t \in ReportFeedbackTypes,
       v \in ReportFeedbackVerdicts, s \in ReportFeedbackScores,
       u \in Users :
        /\ Len(feedback_history) < MaxReportFeedback
        /\ submit_feedback(e, t, v, s, u)
        /\ UNCHANGED threadVars

NextReport == ReportFraud \/ FeedbackDuringReports

SpecReport == Init /\ [][NextReport]_vars

(***************************************************************************)
(* C2: auto-blacklist threshold sequence.  When an entity whose ledger     *)
(* holds only reports of one valid type t, and that no feedback has        *)
(* blacklisted before its 50th report, is reported again with type t, the  *)
(* call number k returns report_count = k; for k < 50 it returns           *)
(* blacklisted = FALSE and leaves the blacklist unchanged, for k = 50 it   *)
(* adds the entity to blacklist[t] and returns blacklisted = TRUE with the *)
(* auto-blacklist message, and for k > 50 it returns blacklisted = TRUE    *)
(* and leaves the blacklist unchanged.                                     *)
(***************************************************************************)
C2_ThresholdSequence ==
    [][\A e \in Entities, t \in valid_types :
        LET before == fraud_reports[e]
            k == Len(before) + 1
        IN  (/\ Len(fraud_reports'[e]) = k
             /\ fraud_reports'[e][k].entity_type = t
             /\ \A i \in DOMAIN before : before[i].entity_type = t
             /\ k <= fraud_report_threshold => e \notin blacklist[t])
            => /\ result'.op = "report_fraud"
               /\ result'.response.report_count = k
               /\ k < fraud_report_threshold =>
                     /\ result'.response.blacklisted = FALSE
                     /\ blacklist' = blacklist
               /\ k = fraud_report_threshold =>
                     /\ result'.response.blacklisted = TRUE
                     /\ result'.response.message = "automatically blacklisted"
                     /\ e \notin blacklist[t]
                     /\ blacklist' = [blacklist EXCEPT ![t] = @ \cup {e}]
               /\ k > fraud_report_threshold =>
                     /\ result'.response.blacklisted = TRUE
                     /\ blacklist' = blacklist]_vars

\* Report 51 of an entity reported with one type only: already blacklisted
\* by report 50, which is the one logged automatic blacklisting.
C2_Witness ==
    /\ result.op = "report_fraud"
    /\ result.status = 200
    /\ result.response.report_count = fraud_report_threshold + 1
    /\ result.response.blacklisted = TRUE
    /\ result.response.message = "already blacklisted"
    /\ LET ledger == fraud_reports[result.entity_id]
       IN  \A i \in DOMAIN ledger :
               ledger[i].entity_type = result.entity_type
    /\ \E i \in DOMAIN auto_blacklist_log :
           /\ auto_blacklist_log[i].entity_id = result.entity_id
           /\ auto_blacklist_log[i].report_count = fraud_report_threshold

(***************************************************************************)
(* C3: auto-blacklisting happens at most once per entity id, whatever mix  *)
(* of entity types the reports carry, and a report made after the count    *)
(* has passed the threshold leaves the blacklist sets unchanged.           *)
(***************************************************************************)
C3_AutoBlacklistAtMostOnce ==
    [][\A e \in Entities :
        /\ Cardinality({i \in DOMAIN auto_blacklist_log' :
                            auto_blacklist_log'[i].entity_id = e}) <= 1
        /\ (/\ Len(fraud_reports'[e]) = Len(fraud_reports[e]) + 1
            /\ Len(fraud_reports[e]) >= fraud_report_threshold)
           => blacklist' = blacklist]_vars

IsPrefix(p, q) == Len(p) <= Len(q) /\ SubSeq(q, 1, Len(p)) = p

(***************************************************************************)
(* C23: each event is applied exactly once and the ledgers are             *)
(* append-only.  An accepted process_feedback call appends exactly one     *)
(* entry, its own, to the feedback ledger and increments total_feedbacks   *)
(* by 1; an accepted report_fraud call appends exactly one report, its     *)
(* own, to the ledger of its entity_id, leaves the ledgers of the other    *)
(* entities alone and returns report_count = previous count + 1; neither   *)
(* removes or rewrites an earlier entry of a ledger.                       *)
(***************************************************************************)
C23_LedgersAppendOnly ==
    [][/\ (result'.op = "submit_feedback" /\ result'.status = 200)
          => /\ Len(feedback_history') = Len(feedback_history) + 1
             /\ LET entry == feedback_history'[Len(feedback_history')]
                IN  /\ entry.entity_id = result'.entity_id
                    /\ entry.entity_type = result'.entity_type
                    /\ entry.feedback = result'.feedback
                    /\ entry.original_risk_score = result'.original_risk_score
             /\ metrics'.total_feedbacks = metrics.total_feedbacks + 1
             /\ fraud_reports' = fraud_reports
       /\ (result'.op = "report_fraud" /\ result'.status = 200)
          => LET e == result'.entity_id
                 k == Len(fraud_reports[e]) + 1
             IN  /\ Len(fraud_reports'[e]) = k
                 /\ fraud_reports'[e][k].entity_id = e
                 /\ fraud_reports'[e][k].entity_type = result'.entity_type
                 /\ result'.response.report_count = k
                 /\ \A o \in Entities \ {e} :
                        fraud_reports'[o] = fraud_reports[o]
                 /\ feedback_history' = feedback_history
                 /\ metrics' = metrics
       /\ IsPrefix(feedback_history, feedback_history')
       /\ \A e \in Entities : IsPrefix(fraud_reports[e], fraud_reports'[e])]_vars

\* A second report of an entity was counted as number 2, with a feedback
\* in the feedback ledger and a report of the other entity in its own.
C23_Witness ==
    /\ result.op = "report_fraud"
    /\ result.status = 200
    /\ result.response.report_count = 2
    /\ Len(fraud_reports[result.entity_id]) = 2
    /\ \E o \in Entities \ {result.entity_id} : Len(fraud_reports[o]) = 1
    /\ Len(feedback_history) = 1
    /\ metrics.total_feedbacks = 1

(***************************************************************************)
(* C26: blacklist and whitelist only grow under feedback and reports.  No  *)
(* process_feedback or report_fraud call removes an entity from a          *)
(* blacklist or a whitelist; an entity E in blacklist[T], by a fraud       *)
(* verdict or by automatic blacklisting, stays there whatever safe         *)
(* verdicts follow, and adjust_risk_score(E, T, s) is min(100, s + 60) for *)
(* it, whether or not E is also whitelisted.                               *)
(***************************************************************************)
C26_ListsOnlyGrow ==
    /\ [][\A t \in DOMAIN blacklist :
             /\ blacklist[t] \subseteq blacklist'[t]
             /\ whitelist[t] \subseteq whitelist'[t]]_vars
    /\ [](\A t \in DOMAIN blacklist : \A e \in blacklist[t] :
             \A s \in QueryScores :
                 adjust_risk_score(e, t, s).score = Min(100, s + 60))

\* An entity blacklisted by the 50th report has then been given a safe
\* verdict: it is on both lists of its type.
C26_Witness ==
    /\ auto_blacklist_log # <<>>
    /\ result.op = "submit_feedback"
    /\ feedback_history # <<>>
    /\ feedback_history[Len(feedback_history)].feedback = SAFE
    /\ \E t \in DOMAIN blacklist :
           /\ feedback_history[Len(feedback_history)].entity_type = t
           /\ feedback_history[Len(feedback_history)].entity_id
                  \in blacklist[t] \cap whitelist[t]
           /\ auto_blacklist_log[1].entity_id
                  = feedback_history[Len(feedback_history)].entity_id

(***************************************************************************)
(* C5: a fraud report whose entity_type is not one of the five valid types *)
(* is rejected (status 400) and changes neither the fraud-report ledger    *)
(* nor any blacklist.                                                      *)
(***************************************************************************)
C5_UnknownTypeReportRejected ==
    [][(/\ result'.op = "report_fraud"
        /\ result'.entity_type \notin EntityTypes)
       => /\ result'.status = 400
          /\ fraud_reports' = fraud_reports
          /\ blacklist' = blacklist]_vars

\* A report with entity_type "url" was rejected for an entity that has
\* accepted reports in its ledger.
C5_Witness ==
    /\ result.op = "report_fraud"
    /\ result.entity_type = "url"
    /\ result.status = 400
    /\ Len(fraud_reports[result.entity_id]) > 0

(***************************************************************************)
(* The policy classifier on its own.                                       *)
(***************************************************************************)
ClassifyRisk ==
    \E score \in ScoreRange :
        /\ result' = [op |-> "classify_risk", score |-> score,
                      risk_level |-> classify_risk(score)]
        /\ UNCHANGED <<learningVars, blocked_entities, combiner_weights,
                       policyVars, threadVars>>

DetermineAction ==
    \E risk_level \in RiskLevels, platform \in Platforms,
       transaction_type \in SignalTypes, intent_type \in IntentTypes :
        /\ result' = [op |-> "determine_action", risk_level |-> risk_level,
                      platform |-> platform, type |-> transaction_type,
                      intent_type |-> intent_type,
                      action |-> determine_action(risk_level, platform,
                                                  transaction_type,
                                                  intent_type)]
        /\ UNCHANGED <<learningVars, blocked_entities, combiner_weights,
                       policyVars, threadVars>>

AdjustThreshold ==
    \E false_positive_rate \in Rates :
        /\ adjust_threshold(false_positive_rate)
        /\ result' = [op |-> "adjust_threshold",
                      false_positive_rate |-> false_positive_rate]
        /\ UNCHANGED <<learningVars, blocked_entities, combiner_weights,
                       threadVars>>

NextPolicy == ClassifyRisk \/ DetermineAction \/ AdjustThreshold

SpecPolicy == Init /\ [][NextPolicy]_vars

(***************************************************************************)
(* URL analyses with feedback coming in.                                   *)
(***************************************************************************)
AnalyzeUrl ==
    \E url \in Entities, final_score \in BaseScores, has_qr \in BOOLEAN :
        /\ analyze_url(url, final_score, has_qr)
        /\ UNCHANGED threadVars

AnalysisFeedbackTypes == {"urls", "url"}
AnalysisFeedbackVerdicts == {SAFE, FRAUD, UNSURE}
AnalysisFeedbackScores == {50}

FeedbackDuringAnalysis ==
    \E e \in Entities, t \in AnalysisFeedbackTypes,
       v \in AnalysisFeedbackVerdicts, s \in AnalysisFeedbackScores,
       u \in Users :
        /\ Len(feedback_history) < MaxAnalysisFeedback
        /\ submit_feedback(e, t, v, s, u)
        /\ UNCHANGED threadVars

NextAnalysis == AnalyzeUrl \/ FeedbackDuringAnalysis

SpecAnalysis == Init /\ [][NextAnalysis]_vars

(***************************************************************************)
(* C6 as claimed: the score handed to the policy classifier by an          *)
(* orchestrated analysis is within [0, 100].                               *)
(***************************************************************************)
C6_ClassifiedScoreBounded ==
    (result.op = "analyze_url" /\ result.status = 200)
    => /\ 0 <= result.classified_score
       /\ result.classified_score <= 100

(***************************************************************************)
(* C6 amended: for a base score s >= 0 the score handed to the policy       *)
(* classifier is the learning-adjusted score; it is within [0, max(100,s)] *)
(* and is not capped at 100.  The cap is applied afterwards, to the        *)
(* risk_score of the response, which is within [0, 100].                   *)
(***************************************************************************)
C6_ClassifiedScoreUncapped ==
    (result.op = "analyze_url" /\ result.status = 200)
    => /\ result.classified_score = result.agentic_result.adjusted_score
       /\ 0 <= result.classified_score
       /\ result.classified_score
             <= Max(100, result.agentic_result.original_score)
       /\ 0 <= result.risk_score
       /\ result.risk_score <= 100
       /\ result.risk_score = Min(100, result.classified_score)

\* A base score of 120 reaches the classifier as 120 (CRITICAL) and the
\* response reports 100.
C6_Witness ==
    /\ result.op = "analyze_url"
    /\ result.status = 200
    /\ result.agentic_result.original_score = 120
    /\ result.classified_score = 120
    /\ result.agentic_result.action_response.risk_level = CRITICAL
    /\ result.risk_score = 100

(***************************************************************************)
(* C16: blocked-entity set lifecycle.  The set starts empty; an analysis   *)
(* whose decide_and_act returns should_block adds its entity and nothing   *)
(* else; a safe feedback removes its entity (if it is a member) and        *)
(* nothing else; an analysis with a non-blocking action, a fraud feedback  *)
(* and an unsure feedback leave the set as it is.  Hence an entity is      *)
(* blocked exactly when the latest of its blocking decisions and safe      *)
(* feedbacks was a blocking decision.                                      *)
(***************************************************************************)
C16_BlockedSetLifecycle ==
    /\ blocked_entities = {}
    /\ [][/\ (result'.op = "analyze_url" /\ result'.status = 200)
             => blocked_entities' =
                   IF result'.agentic_result.action_response.should_block
                   THEN blocked_entities \cup {result'.entity_id}
                   ELSE blocked_entities
          /\ (result'.op = "analyze_url" /\ result'.status # 200)
             => blocked_entities' = blocked_entities
          /\ (result'.op = "submit_feedback"
                /\ feedback_history' # feedback_history)
             => blocked_entities' =
                   IF result'.feedback = SAFE
                   THEN blocked_entities \ {result'.entity_id}
                   ELSE blocked_entities]_vars

\* A safe feedback has unblocked one entity while the other stays blocked.
C16_Witness ==
    /\ result.op = "submit_feedback"
    /\ result.feedback = SAFE
    /\ result.unblocked
    /\ result.entity_id \notin blocked_entities
    /\ blocked_entities # {}

(***************************************************************************)
(* C11: the weight the combine of an analysis request uses for each        *)
(* category is its base weight (rules 0.50, nlp 0.30, anomaly 0.20) plus   *)
(* the current delta of the learning store; in particular, while all       *)
(* deltas are zero the combiner holds 0.50 / 0.30 / 0.20 after any number  *)
(* of analyses.                                                            *)
(***************************************************************************)
C11_WeightsBasePlusDelta ==
    /\ (result.op = "analyze_url" /\ result.status = 200)
       => \A k \in DOMAIN DefaultWeights :
              result.weights_used[k] = DefaultWeights[k] + weight_adjustments[k]
    /\ weight_adjustments = ZeroWeights => combiner_weights = DefaultWeights

(***************************************************************************)
(* C22: the community blacklist reaches the analysis path.  Once an        *)
(* entity id is blacklisted (by 50 fraud reports of its type or by a fraud *)
(* feedback), every later orchestrated analysis of that entity id applies  *)
(* the blacklist adjustment min(100, s + 60) to its base score s, and ends *)
(* in a blocking action (should_block) whenever s >= 10.                   *)
(***************************************************************************)
C22_BlacklistReachesAnalysis ==
    (/\ result.op = "analyze_url"
     /\ result.status = 200
     /\ \E t \in DOMAIN blacklist : result.entity_id \in blacklist[t])
    => /\ result.agentic_result.adjusted_score =
             Min(100, result.agentic_result.original_score + 60)
       /\ result.agentic_result.original_score >= 10
             => result.agentic_result.action_response.should_block

(***************************************************************************)
(* C25: the reported risk level agrees with the level that drove the       *)
(* action.  In every URL analysis response, risk_level equals              *)
(* action_response.risk_level, the level under which the policy chose the  *)
(* agent action for the same adjusted score, and is_safe is true exactly   *)
(* when the agent action neither blocks nor needs a confirmation.          *)
(***************************************************************************)
C25_ReportedLevelAgrees ==
    (result.op = "analyze_url" /\ result.status = 200)
    => /\ result.risk_level = result.agentic_result.action_response.risk_level
       /\ result.is_safe <=>
              /\ ~result.agentic_result.action_response.should_block
              /\ ~result.agentic_result.action_response.requires_confirmation

(***************************************************************************)
(* Blacklisted entities under tuned thresholds: orchestrate_agentic_       *)
(* analysis called with the entity type of the lists, while feedback       *)
(* fills the lists and adjust_threshold moves the thresholds.              *)
(***************************************************************************)
BlacklistedTypes == {"urls", "url"}
BlacklistedScores == {0, 14, 15, 40}
BlacklistedPlatforms == {"chrome", "android"}
BlacklistedSignals == {"url", "upi"}

OrchestrateAgenticAnalysis ==
    \E entity_id \in Entities, entity_type \in BlacklistedTypes,
       base_risk_score \in BlacklistedScores,
       platform \in BlacklistedPlatforms,
       threat_type \in BlacklistedSignals :
        /\ orchestrate_agentic_analysis(entity_id, entity_type,
                                        base_risk_score, platform,
                                        threat_type, "none")
        /\ result' = [op |-> "orchestrate_agentic_analysis",
                      entity_id |-> entity_id, entity_type |-> entity_type,
                      agentic_result |->
                          orchestrate_result(entity_id, entity_type,
                                             base_risk_score, platform,
                                             threat_type, "none")]
        /\ UNCHANGED <<learningVars, policyVars, threadVars>>

TuneThreshold ==
    \E false_positive_rate \in {0, 10, 100} :
        /\ adjust_threshold(false_positive_rate)
        /\ result' = [op |-> "adjust_threshold",
                      false_positive_rate |-> false_positive_rate]
        /\ UNCHANGED <<learningVars, blocked_entities, combiner_weights,
                       threadVars>>

BlacklistingFeedback ==
    \E e \in Entities, v \in {SAFE, FRAUD}, u \in Users :
        /\ Len(feedback_history) < MaxAnalysisFeedback
        /\ submit_feedback(e, "urls", v, 50, u)
        /\ UNCHANGED threadVars

NextBlacklistedPolicy ==
    \/ OrchestrateAgenticAnalysis
    \/ TuneThreshold
    \/ BlacklistingFeedback

SpecBlacklistedPolicy == Init /\ [][NextBlacklistedPolicy]_vars

(***************************************************************************)
(* C27: a blacklisted entity is never treated as low risk.  For an entity  *)
(* in blacklist[T] and an original score s >= 0 the adjusted score is in   *)
(* 60..100; under every thresholds adjust_threshold can reach the level is *)
(* not LOW and the action is not MONITOR, and the level is HIGH or         *)
(* CRITICAL whenever s >= 15.                                              *)
(***************************************************************************)
C27_BlacklistedNeverLow ==
    (/\ result.op = "orchestrate_agentic_analysis"
     /\ result.entity_type \in DOMAIN blacklist
     /\ result.entity_id \in blacklist[result.entity_type]
     /\ result.agentic_result.original_score >= 0)
    => /\ result.agentic_result.adjusted_score \in 60..100
       /\ result.agentic_result.action_response.risk_level # LOW
       /\ result.agentic_result.action_response.action # MONITOR
       /\ result.agentic_result.original_score >= 15
             => result.agentic_result.action_response.risk_level
                    \in {HIGH, CRITICAL}

\* With the medium threshold tuned up to its cap of 75, a blacklisted
\* entity of original score 15 is adjusted to 75 and classified HIGH.
C27_Witness ==
    /\ result.op = "orchestrate_agentic_analysis"
    /\ result.entity_type \in DOMAIN blacklist
    /\ result.entity_id \in blacklist[result.entity_type]
    /\ medium_threshold = 75
    /\ result.agentic_result.original_score = 15
    /\ result.agentic_result.adjusted_score = 75
    /\ result.agentic_result.action_response.risk_level = HIGH

(***************************************************************************)
(* The policy decision and the action responder over scores on both sides  *)
(* of every value a threshold can take, while adjust_threshold moves the   *)
(* thresholds.                                                             *)
(***************************************************************************)
DecisionScores == {39, 40, 64, 65, 74, 75, 94, 95, 104, 105}
DecisionPlatforms == {"chrome", "android"}
DecisionSignals == {"url", "upi", "payment"}

ClassifyAndAct ==
    \E score \in DecisionScores, platform \in DecisionPlatforms,
       transaction_type \in DecisionSignals, intent_type \in IntentTypes :
        /\ result' = [op |-> "classify_and_act", score |-> score,
                      platform |-> platform, type |-> transaction_type,
                      intent_type |-> intent_type,
                      decision |-> classify_and_act(score, platform,
                                                    transaction_type,
                                                    intent_type)]
        /\ UNCHANGED <<learningVars, blocked_entities, combiner_weights,
                       policyVars, threadVars>>

DecideAndAct ==
    \E entity_id \in Entities, risk_score \in DecisionScores,
       platform \in DecisionPlatforms, threat_type \in {"url"} :
        /\ decide_and_act(platform, threat_type, risk_score, entity_id,
                          "none")
        /\ result' = [op |-> "decide_and_act", entity_id |-> entity_id,
                      response |->
                          decide_and_act_response(platform, threat_type,
                                                  risk_score, entity_id,
                                                  "none")]
        /\ UNCHANGED <<learningVars, combiner_weights, policyVars,
                       threadVars>>

FeedbackOnDecision ==
    \E v \in {SAFE, FRAUD}, u \in Users :
        /\ Len(feedback_history) < MaxReportFeedback
        /\ submit_feedback("e1", "urls", v, 50, u)
        /\ UNCHANGED threadVars

NextDecision ==
    \/ ClassifyAndAct
    \/ DecideAndAct
    \/ TuneThreshold
    \/ FeedbackOnDecision

SpecDecision == Init /\ [][NextDecision]_vars

(***************************************************************************)
(* C29: the blocking decision and the flags are consistent.  For every     *)
(* score and context classify_and_act returns should_block exactly when    *)
(* the level is HIGH or CRITICAL, which is when the action is BLOCK,       *)
(* ABORT_TRANSACTION or REDIRECT, and requires_confirmation exactly when   *)
(* the level is MEDIUM, which is when the action is CONFIRM or WARN; never *)
(* both, and neither for LOW.  An entity id enters blocked_entities only   *)
(* in a decide_and_act for that entity whose score is at or above the      *)
(* MEDIUM/HIGH boundary (medium_threshold).                                *)
(***************************************************************************)
C29_FlagsConsistent ==
    /\ [](result.op = "classify_and_act"
             => LET d == result.decision
                IN  /\ d.should_block <=> d.risk_level \in {HIGH, CRITICAL}
                    /\ d.should_block
                          <=> d.action \in {BLOCK, ABORT_TRANSACTION, REDIRECT}
                    /\ d.requires_confirmation <=> d.risk_level = MEDIUM
                    /\ d.requires_confirmation
                          <=> d.action \in {CONFIRM, WARN}
                    /\ ~(d.should_block /\ d.requires_confirmation)
                    /\ d.risk_level = LOW
                          => ~d.should_block /\ ~d.requires_confirmation)
    /\ [][\A e \in blocked_entities' \ blocked_entities :
              /\ result'.op = "decide_and_act"
              /\ result'.entity_id = e
              /\ result'.response.should_block
              /\ result'.response.risk_score >= medium_threshold]_vars

\* With the thresholds tuned up to 75 / 105, a score of 75 is HIGH and has
\* blocked its entity, the only member of the set.
C29_Witness ==
    /\ result.op = "decide_and_act"
    /\ medium_threshold = 75
    /\ result.response.risk_score = 75
    /\ result.response.risk_level = HIGH
    /\ result.response.should_block
    /\ ~result.response.requires_confirmation
    /\ blocked_entities = {result.entity_id}

DefaultThresholds ==
    /\ low_threshold = 40
    /\ medium_threshold = 70
    /\ high_threshold = 100

C15_ThresholdTuningBounded ==
    /\ [][result'.op = "adjust_threshold"
          => LET r == result'.false_positive_rate
             IN  /\ r > 15 => /\ medium_threshold' = Min(75, medium_threshold + 5)
                              /\ high_threshold' = Min(105, high_threshold + 5)
                 /\ r < 5 => /\ medium_threshold' = Max(65, medium_threshold - 5)
                             /\ high_threshold' = Max(95, high_threshold - 5)
                 /\ (5 <= r /\ r <= 15)
                       => /\ medium_threshold' = medium_threshold
                          /\ high_threshold' = high_threshold]_vars
    /\ [](/\ 65 <= medium_threshold /\ medium_threshold <= 75
          /\ 95 <= high_threshold /\ high_threshold <= 105
          /\ low_threshold = 40
          /\ low_threshold < medium_threshold
          /\ medium_threshold < high_threshold)

\* A rate of 0.16 has brought the boundaries to their caps, and a score of
\* 74 is then classified MEDIUM.
C15_Witness ==
    /\ medium_threshold = 75
    /\ high_threshold = 105
    /\ result.op = "classify_risk"
    /\ result.score = 74
    /\ result.risk_level = MEDIUM

(***************************************************************************)
(* C8: for risk level HIGH or CRITICAL, signal type upi and intent_type    *)
(* collect, determine_action returns ABORT_TRANSACTION on every platform.  *)
(***************************************************************************)
C8_CollectAbortFirst ==
    (/\ result.op = "determine_action"
     /\ result.risk_level \in {HIGH, CRITICAL}
     /\ result.type = "upi"
     /\ result.intent_type = "collect")
    => result.action = ABORT_TRANSACTION

\* A HIGH collect request on chrome is aborted, not redirected.
C8_Witness ==
    /\ result.op = "determine_action"
    /\ result.risk_level = HIGH
    /\ result.platform = "chrome"
    /\ result.type = "upi"
    /\ result.intent_type = "collect"
    /\ result.action = ABORT_TRANSACTION

(***************************************************************************)
(* C9 as claimed: for HIGH and for CRITICAL alike, whenever the signal is  *)
(* not (upi and collect), determine_action returns REDIRECT on chrome and  *)
(* BLOCK elsewhere.                                                        *)
(***************************************************************************)
C9_HighCriticalShared ==
    (/\ result.op = "determine_action"
     /\ result.risk_level \in {HIGH, CRITICAL}
     /\ ~(result.type = "upi" /\ result.intent_type = "collect"))
    => result.action = IF result.platform = "chrome" THEN REDIRECT ELSE BLOCK

(***************************************************************************)
(* C9 amended: for HIGH, whenever the signal is not (upi and collect),     *)
(* determine_action returns REDIRECT on chrome and BLOCK elsewhere; for    *)
(* CRITICAL it returns ABORT_TRANSACTION for every upi signal, whatever    *)
(* the intent, and REDIRECT on chrome / BLOCK elsewhere for every other    *)
(* signal type.  ABORT_TRANSACTION is returned exactly when the level is   *)
(* HIGH or CRITICAL, the signal type is upi, and the intent is collect or  *)
(* the level is CRITICAL.                                                  *)
(***************************************************************************)
C9_HighAndCriticalPolicy ==
    result.op = "determine_action"
    => /\ (/\ result.risk_level = HIGH
           /\ ~(result.type = "upi" /\ result.intent_type = "collect"))
          => result.action =
                IF result.platform = "chrome" THEN REDIRECT ELSE BLOCK
       /\ (result.risk_level = CRITICAL /\ result.type = "upi")
          => result.action = ABORT_TRANSACTION
       /\ (result.risk_level = CRITICAL /\ result.type # "upi")
          => result.action =
                IF result.platform = "chrome" THEN REDIRECT ELSE BLOCK
       /\ result.action = ABORT_TRANSACTION
          <=> /\ result.risk_level \in {HIGH, CRITICAL}
              /\ result.type = "upi"
              /\ (result.intent_type = "collect"
                    \/ result.risk_level = CRITICAL)

\* A CRITICAL upi signal with a pay intent on chrome is aborted.
C9_Witness ==
    /\ result.op = "determine_action"
    /\ result.risk_level = CRITICAL
    /\ result.platform = "chrome"
    /\ result.type = "upi"
    /\ result.intent_type = "pay"
    /\ result.action = ABORT_TRANSACTION

(***************************************************************************)
(* C10: determine_action returns MONITOR for LOW whatever the platform,    *)
(* signal type and intent; for MEDIUM it returns CONFIRM when the signal   *)
(* type is upi, payment or transaction and WARN for every other type.      *)
(***************************************************************************)
C10_LowMediumPolicy ==
    result.op = "determine_action"
    => /\ result.risk_level = LOW => result.action = MONITOR
       /\ result.risk_level = MEDIUM
          => result.action =
                IF result.type \in {"upi", "payment", "transaction"}
                THEN CONFIRM ELSE WARN

\* A MEDIUM transaction signal is answered with CONFIRM.
C10_Witness ==
    /\ result.op = "determine_action"
    /\ result.risk_level = MEDIUM
    /\ result.type = "transaction"
    /\ result.intent_type = "collect"
    /\ result.action = CONFIRM

(***************************************************************************)
(* Feedback on one entity with scores on both sides of every boundary of   *)
(* the update rules (20, 40, 70).                                          *)
(***************************************************************************)
RuleScores == {19, 20, 39, 40, 69, 70}

WeightFeedback ==
    \E v \in Verdicts, s \in RuleScores, u \in Users :
        /\ Len(feedback_history) < MaxWeightFeedback
        /\ submit_feedback("e1", "urls", v, s, u)
        /\ UNCHANGED threadVars

NextWeights == WeightFeedback

SpecWeights == Init /\ [][NextWeights]_vars

(***************************************************************************)
(* C12: weight-delta update rule of process_feedback, in hundredths.       *)
(* safe with score >= 70: nlp -1 and rules -1; safe with 40 <= score < 70: *)
(* rules -2 only; fraud with score < 20: nlp +2, rules +2, anomaly +1;     *)
(* fraud with 20 <= score < 40: nlp +1 and rules +1; every other feedback  *)
(* leaves the three deltas unchanged.  The deltas are not clamped: after n *)
(* identical false-positive feedbacks and nothing else, the rules delta is *)
(* n times the single step.                                                *)
(***************************************************************************)
C12_WeightDeltaRule ==
    /\ [][result'.op = "submit_feedback" /\ feedback_history' # feedback_history
          => LET v == result'.feedback
                 sc == result'.original_risk_score
                 d == [k \in DOMAIN ZeroWeights |->
                          weight_adjustments'[k] - weight_adjustments[k]]
             IN  d = IF v = SAFE /\ sc >= 70
                     THEN [rules_score |-> 0 - 1, nlp_score |-> 0 - 1,
                           anomaly_score |-> 0]
                     ELSE IF v = SAFE /\ sc >= 40
                     THEN [rules_score |-> 0 - 2, nlp_score |-> 0,
                           anomaly_score |-> 0]
                     ELSE IF v = FRAUD /\ sc < 20
                     THEN [rules_score |-> 2, nlp_score |-> 2,
                           anomaly_score |-> 1]
                     ELSE IF v = FRAUD /\ sc < 40
                     THEN [rules_score |-> 1, nlp_score |-> 1,
                           anomaly_score |-> 0]
                     ELSE ZeroWeights]_vars
    /\ [](\A sc \in RuleScores :
            (/\ sc >= 40
             /\ \A i \in DOMAIN feedback_history :
                    /\ feedback_history[i].feedback = SAFE
                    /\ feedback_history[i].original_risk_score = sc)
            => weight_adjustments.rules_score =
                  Len(feedback_history) * (IF sc >= 70 THEN 0 - 1 ELSE 0 - 2))

\* Three false-positive feedbacks with score 40: the rules delta is -0.06.
C12_Witness ==
    /\ Len(feedback_history) = 3
    /\ \A i \in DOMAIN feedback_history :
           /\ feedback_history[i].feedback = SAFE
           /\ feedback_history[i].original_risk_score = 40
    /\ weight_adjustments = [rules_score |-> 0 - 6, nlp_score |-> 0,
                             anomaly_score |-> 0]

(***************************************************************************)
(* C28: metrics counter invariants.  Starting from zeroed metrics, after   *)
(* any sequence of process_feedback calls safe_feedbacks = false_positives *)
(* + true_negatives, fraud_feedbacks = true_positives + false_negatives,   *)
(* and total_feedbacks = safe_feedbacks + fraud_feedbacks + the number of  *)
(* feedbacks with another verdict = the length of the feedback ledger; a   *)
(* feedback whose verdict is neither safe nor fraud changes only           *)
(* total_feedbacks and the ledger (which is saved with every tenth         *)
(* entry).                                                                 *)
(***************************************************************************)
C28_MetricsCounters ==
    /\ [](/\ metrics.safe_feedbacks
                = metrics.false_positives + metrics.true_negatives
           /\ metrics.fraud_feedbacks
                = metrics.true_positives + metrics.false_negatives
           /\ metrics.total_feedbacks
                = metrics.safe_feedbacks + metrics.fraud_feedbacks
                  + Len(SelectSeq(feedback_history,
                                  LAMBDA f : f.feedback \notin {SAFE, FRAUD}))
           /\ metrics.total_feedbacks = Len(feedback_history))
    /\ [][(/\ result'.op = "submit_feedback"
            /\ feedback_history' # feedback_history
            /\ result'.feedback \notin {SAFE, FRAUD})
           => /\ metrics' = [metrics EXCEPT !.total_feedbacks = @ + 1]
              /\ Len(feedback_history') = Len(feedback_history) + 1
              /\ SubSeq(feedback_history', 1, Len(feedback_history))
                     = feedback_history
              /\ feedback_history'[Len(feedback_history')].feedback
                     = result'.feedback
              /\ Len(feedback_history') % 10 # 0 => disk' = disk
              /\ UNCHANGED <<whitelist, blacklist, weight_adjustments,
                             fraud_reports, analysis_history, user_settings,
                             auto_blacklist_log, blocked_entities,
                             combiner_weights, policyVars>>]_vars

\* A safe, a fraud and an unsure feedback have been counted: the total is
\* 3, one more than safe_feedbacks + fraud_feedbacks.
C28_Witness ==
    /\ result.op = "submit_feedback"
    /\ result.feedback = UNSURE
    /\ Len(feedback_history) = 3
    /\ metrics.total_feedbacks = 3
    /\ metrics.safe_feedbacks = 1
    /\ metrics.fraud_feedbacks = 1
    /\ metrics.false_positives + metrics.true_negatives = 1
    /\ metrics.true_positives + metrics.false_negatives = 1

(***************************************************************************)
(* C13: confusion-matrix update.  A process_feedback call with verdict     *)
(* safe or fraud increments exactly one of the four counters, chosen by    *)
(* the verdict and by whether original_risk_score >= 40 (flagged):         *)
(* safe + flagged -> false_positives, safe + not flagged ->                *)
(* true_negatives, fraud + flagged -> true_positives, fraud + not flagged  *)
(* -> false_negatives; the other three counters are unchanged.             *)
(***************************************************************************)
C13_ConfusionMatrix ==
    [][(/\ result'.op = "submit_feedback"
        /\ feedback_history' # feedback_history
        /\ result'.feedback \in {SAFE, FRAUD})
       => LET v == result'.feedback
              flagged == result'.original_risk_score >= 40
              counter == IF v = SAFE
                         THEN IF flagged THEN "false_positives"
                              ELSE "true_negatives"
                         ELSE IF flagged THEN "true_positives"
                              ELSE "false_negatives"
          IN  \A c \in {"false_positives", "true_negatives",
                         "true_positives", "false_negatives"} :
                  metrics'[c] = metrics[c] + (IF c = counter THEN 1 ELSE 0)]_vars

\* A fraud verdict on a score of exactly 40 counted as a true positive,
\* after a safe verdict on 39 counted as a true negative.
C13_Witness ==
    /\ result.op = "submit_feedback"
    /\ result.feedback = FRAUD
    /\ result.original_risk_score = 40
    /\ Len(feedback_history) = 2
    /\ feedback_history[1].feedback = SAFE
    /\ feedback_history[1].original_risk_score = 39
    /\ metrics.true_positives = 1
    /\ metrics.true_negatives = 1
    /\ metrics.false_positives = 0
    /\ metrics.false_negatives = 0

(***************************************************************************)
(* C14: the added_to_whitelist (added_to_blacklist) flag returned for a    *)
(* feedback is true exactly when that call changed the whitelist           *)
(* (blacklist): it is false when the entity was already a member and when  *)
(* the entity_type has no list.                                            *)
(***************************************************************************)
C14_AckReportsChange ==
    [][(/\ result'.op = "submit_feedback"
        /\ feedback_history' # feedback_history)
       => /\ result'.response.added_to_whitelist <=> whitelist' # whitelist
          /\ result'.response.added_to_blacklist <=> blacklist' # blacklist]_vars

(***************************************************************************)
(* Threads calling into the engines.  A thread makes one call; a step is   *)
(* a critical section of the engine lock, or one read or one update of a   *)
(* shared object outside the lock.                                         *)
(***************************************************************************)
ThreadEntities == {"e1"}
ThreadTypes == {"urls"}
ThreadVerdicts == {SAFE, FRAUD}
ThreadScores == {50}

\* POST /feedback: "with self._lock:" of process_feedback is entered.
submit_feedback_acquire(th, e, t, v, s, u) ==
    /\ threads[th].pc = "idle"
    /\ lock = 0
    /\ lock' = th
    /\ threads' = [threads EXCEPT ![th] =
                      [pc |-> "process_feedback", op |-> "submit_feedback",
                       entity_id |-> e, entity_type |-> t, feedback |-> v,
                       original_risk_score |-> s, user_id |-> u]]
    /\ UNCHANGED <<learningVars, blocked_entities, combiner_weights,
                   policyVars, result>>

\* The body of process_feedback under the lock, and the release.
submit_feedback_locked(th) ==
    LET c == threads[th]
    IN  /\ c.pc = "process_feedback"
        /\ lock = th
        /\ process_feedback(c.entity_id, c.entity_type, c.feedback,
                            c.original_risk_score, c.user_id)
        /\ lock' = 0
        /\ threads' = [threads EXCEPT ![th] =
               [c EXCEPT !.pc = "is_blocked"] @@
               [response |-> process_feedback_result(
                                 c.entity_id, c.entity_type, c.feedback,
                                 c.original_risk_score)]]
        /\ UNCHANGED <<blocked_entities, combiner_weights, policyVars,
                       result>>

\* "if feedback.feedback == FeedbackType.SAFE and
\*  action_engine.is_blocked(feedback.entity_id)"
submit_feedback_is_blocked(th) ==
    LET c == threads[th]
    IN  /\ c.pc = "is_blocked"
        /\ threads' = [threads EXCEPT ![th].pc =
               IF c.feedback = SAFE /\ is_blocked(c.entity_id)
               THEN "unblock" ELSE "done"]
        /\ UNCHANGED <<learningVars, blocked_entities, combiner_weights,
                       policyVars, result, lock>>

\* "action_engine.unblock(feedback.entity_id)"
submit_feedback_unblock(th) ==
    LET c == threads[th]
    IN  /\ c.pc = "unblock"
        /\ blocked_entities' = unblock(c.entity_id)
        /\ threads' = [threads EXCEPT ![th].pc = "done"]
        /\ UNCHANGED <<learningVars, combiner_weights, policyVars, result,
                       lock>>

\* LearningEngine.report_fraud: the lock is entered.
report_fraud_acquire(th, e, t, u) ==
    /\ threads[th].pc = "idle"
    /\ lock = 0
    /\ lock' = th
    /\ threads' = [threads EXCEPT ![th] =
                      [pc |-> "report_fraud", op |-> "report_fraud",
                       entity_id |-> e, entity_type |-> t, user_id |-> u]]
    /\ UNCHANGED <<learningVars, blocked_entities, combiner_weights,
                   policyVars, result>>

\* The body of report_fraud under the lock, and the release.
report_fraud_locked(th) ==
    LET c == threads[th]
    IN  /\ c.pc = "report_fraud"
        /\ lock = th
        /\ report_fraud(c.entity_id, c.entity_type, c.user_id)
        /\ lock' = 0
        /\ threads' = [threads EXCEPT ![th] =
               [c EXCEPT !.pc = "done"] @@
               [response |-> report_fraud_result(
                                 c.entity_id, c.entity_type,
                                 Len(fraud_reports[c.entity_id]) + 1)]]
        /\ UNCHANGED <<blocked_entities, combiner_weights, policyVars,
                       result>>

\* remove_from_whitelist: the membership test, made without the lock.
remove_from_whitelist_test(th, e, t) ==
    /\ threads[th].pc = "idle"
    /\ threads' = [threads EXCEPT ![th] =
           IF t \in DOMAIN whitelist /\ e \in whitelist[t]
           THEN [pc |-> "whitelist_remove", op |-> "remove_from_whitelist",
                 entity_id |-> e, entity_type |-> t]
           ELSE [pc |-> "done", op |-> "remove_from_whitelist",
                 entity_id |-> e, entity_type |-> t, response |-> "False"]]
    /\ UNCHANGED <<learningVars, blocked_entities, combiner_weights,
                   policyVars, result, lock>>

\* "self.whitelist[entity_type].remove(entity_id)": set.remove raises
\* KeyError when another thread has removed the member in between.
remove_from_whitelist_remove(th) ==
    LET c == threads[th]
    IN  /\ c.pc = "whitelist_remove"
        /\ whitelist' = [whitelist EXCEPT ![c.entity_type] = @ \ {c.entity_id}]
        /\ threads' = [threads EXCEPT ![th] =
               [c EXCEPT !.pc = "done"] @@
               [response |-> IF c.entity_id \in whitelist[c.entity_type]
                             THEN "True" ELSE "KeyError"]]
        /\ UNCHANGED <<blacklist, feedback_history, metrics,
                       weight_adjustments, fraud_reports, analysis_history,
                       user_settings, disk,
                       auto_blacklist_log, blocked_entities, combiner_weights,
                       policyVars, result, lock>>

\* remove_from_blacklist: the membership test, made without the lock.
remove_from_blacklist_test(th, e, t) ==
    /\ threads[th].pc = "idle"
    /\ threads' = [threads EXCEPT ![th] =
           IF t \in DOMAIN blacklist /\ e \in blacklist[t]
           THEN [pc |-> "blacklist_remove", op |-> "remove_from_blacklist",
                 entity_id |-> e, entity_type |-> t]
           ELSE [pc |-> "done", op |-> "remove_from_blacklist",
                 entity_id |-> e, entity_type |-> t, response |-> "False"]]
    /\ UNCHANGED <<learningVars, blocked_entities, combiner_weights,
                   policyVars, result, lock>>

\* "self.blacklist[entity_type].remove(entity_id)"
remove_from_blacklist_remove(th) ==
    LET c == threads[th]
    IN  /\ c.pc = "blacklist_remove"
        /\ blacklist' = [blacklist EXCEPT ![c.entity_type] = @ \ {c.entity_id}]
        /\ threads' = [threads EXCEPT ![th] =
               [c EXCEPT !.pc = "done"] @@
               [response |-> IF c.entity_id \in blacklist[c.entity_type]
                             THEN "True" ELSE "KeyError"]]
        /\ UNCHANGED <<whitelist, feedback_history, metrics,
                       weight_adjustments, fraud_reports, analysis_history,
                       user_settings, disk,
                       auto_blacklist_log, blocked_entities, combiner_weights,
                       policyVars, result, lock>>

FeedbackAcquire ==
    \E th \in Threads, e \in ThreadEntities, t \in ThreadTypes,
       v \in ThreadVerdicts, s \in ThreadScores, u \in Users :
        submit_feedback_acquire(th, e, t, v, s, u)

FeedbackLocked == \E th \in Threads : submit_feedback_locked(th)

FeedbackIsBlocked == \E th \in Threads : submit_feedback_is_blocked(th)

FeedbackUnblock == \E th \in Threads : submit_feedback_unblock(th)

ReportAcquire ==
    \E th \in Threads, e \in ThreadEntities, t \in ThreadTypes, u \in Users :
        report_fraud_acquire(th, e, t, u)

ReportLocked == \E th \in Threads : report_fraud_locked(th)

RemoveFromWhitelistTest ==
    \E th \in Threads, e \in ThreadEntities, t \in ThreadTypes :
        remove_from_whitelist_test(th, e, t)

RemoveFromWhitelistRemove ==
    \E th \in Threads : remove_from_whitelist_remove(th)

RemoveFromBlacklistTest ==
    \E th \in Threads, e \in ThreadEntities, t \in ThreadTypes :
        remove_from_blacklist_test(th, e, t)

RemoveFromBlacklistRemove ==
    \E th \in Threads : remove_from_blacklist_remove(th)

NextEngineThreads ==
    \/ FeedbackAcquire
    \/ FeedbackLocked
    \/ FeedbackIsBlocked
    \/ ReportAcquire
    \/ ReportLocked
    \/ RemoveFromWhitelistTest
    \/ RemoveFromWhitelistRemove
    \/ RemoveFromBlacklistTest
    \/ RemoveFromBlacklistRemove

SpecEngineThreads == Init /\ [][NextEngineThreads]_vars

ThreadsOf(op) == {th \in Threads : threads[th].pc # "idle" /\ threads[th].op = op}

AllReturned == \A th \in Threads : threads[th].pc \in {"idle", "done"}

(***************************************************************************)
(* C17: no lost updates under concurrency.  When n process_feedback calls  *)
(* and m report_fraud calls made by concurrent threads have all returned,  *)
(* total_feedbacks and the feedback ledger have grown by n, the report     *)
(* ledgers by m, and the report_count values returned for one entity are   *)
(* pairwise distinct; and every step that changes the whitelist, the       *)
(* blacklist, the metrics, the weight deltas or the report ledger,         *)
(* remove_from_whitelist and remove_from_blacklist included, is taken by   *)
(* the thread that holds the engine lock.                                  *)
(***************************************************************************)
C17_NoLostUpdates ==
    AllReturned
    => /\ metrics.total_feedbacks = Cardinality(ThreadsOf("submit_feedback"))
       /\ Len(feedback_history) = Cardinality(ThreadsOf("submit_feedback"))
       /\ Len(fraud_reports["e1"]) = Cardinality(ThreadsOf("report_fraud"))
       /\ \A a, b \in ThreadsOf("report_fraud") :
              a # b => threads[a].response.report_count
                          # threads[b].response.report_count

C17_MutationsUnderLock ==
    /\ []C17_NoLostUpdates
    /\ [][(\/ whitelist' # whitelist
           \/ blacklist' # blacklist
           \/ metrics' # metrics
           \/ weight_adjustments' # weight_adjustments
           \/ fraud_reports' # fraud_reports)
          => /\ lock # 0
             /\ threads'[lock] # threads[lock]]_vars

(***************************************************************************)
(* Request threads: feedback, orchestrated analysis and combine.           *)
(***************************************************************************)
\* entity_type handed to orchestrate_agentic_analysis: the 'url' of
\* analyze_url and a key of the lists
OrchestrateTypes == {"url", "urls"}
OrchestrateScores == {80}
\* detector scores handed to combine_scores: rules, nlp, anomaly, domain
CombineInputs == {<<10, 20, 30, 0>>}

\* "learning_engine.adjust_risk_score(entity_id, entity_type, base)": the
\* lists are read without the lock.
orchestrate_adjust(th, e, t, base) ==
    /\ threads[th].pc = "idle"
    /\ threads' = [threads EXCEPT ![th] =
                      [pc |-> "update_weights", op |-> "orchestrate",
                       entity_id |-> e, entity_type |-> t,
                       original_score |-> base,
                       adjusted_score |-> adjust_risk_score(e, t, base).score,
                       reasons |-> adjust_risk_score(e, t, base).reasons]]
    /\ UNCHANGED <<learningVars, blocked_entities, combiner_weights,
                   policyVars, result, lock>>

\* get_weight_adjustments() and risk_combiner.update_weights(...)
orchestrate_update_weights(th) ==
    /\ threads[th].pc = "update_weights"
    /\ combiner_weights' = updated_weights(weight_adjustments)
    /\ threads' = [threads EXCEPT ![th].pc = "decide_and_act"]
    /\ UNCHANGED <<learningVars, blocked_entities, policyVars, result, lock>>

\* action_engine.decide_and_act(action_context), platform chrome, type url
orchestrate_decide_and_act(th) ==
    LET c == threads[th]
    IN  /\ c.pc = "decide_and_act"
        /\ decide_and_act("chrome", "url", c.adjusted_score, c.entity_id,
                          "none")
        /\ threads' = [threads EXCEPT ![th] =
               [c EXCEPT !.pc = "done"] @@
               [response |-> decide_and_act_response(
                                 "chrome", "url", c.adjusted_score,
                                 c.entity_id, "none")]]
        /\ UNCHANGED <<learningVars, combiner_weights, policyVars, result,
                       lock>>

\* combine_scores: "rules_score * self.weights['rules_score']".  read is
\* the weights the call has read so far and held the complete maps that
\* self.weights was at these reads.
combine_scores_rules(th, in) ==
    /\ threads[th].pc = "idle"
    /\ threads' = [threads EXCEPT ![th] =
                      [pc |-> "combine_nlp", op |-> "combine_scores",
                       scores |-> in,
                       read |-> [rules_score |-> combiner_weights.rules_score],
                       held |-> {combiner_weights}]]
    /\ UNCHANGED <<learningVars, blocked_entities, combiner_weights,
                   policyVars, result, lock>>

\* "+ nlp_score * self.weights['nlp_score']"
combine_scores_nlp(th) ==
    LET c == threads[th]
    IN  /\ c.pc = "combine_nlp"
        /\ threads' = [threads EXCEPT ![th] =
               [c EXCEPT !.pc = "combine_anomaly",
                         !.read = @ @@ [nlp_score |-> combiner_weights.nlp_score],
                         !.held = @ \cup {combiner_weights}]]
        /\ UNCHANGED <<learningVars, blocked_entities, combiner_weights,
                       policyVars, result, lock>>

\* "+ anomaly_score * self.weights['anomaly_score']", the additional
\* scores and the return.
combine_scores_anomaly(th) ==
    LET c == threads[th]
        w == c.read @@ [anomaly_score |-> combiner_weights.anomaly_score]
    IN  /\ c.pc = "combine_anomaly"
        /\ threads' = [threads EXCEPT ![th] =
               [c EXCEPT !.pc = "done", !.read = w,
                         !.held = @ \cup {combiner_weights}] @@
               [response |-> combine_scores(c.scores[1], c.scores[2],
                                            c.scores[3], c.scores[4], w)]]
        /\ UNCHANGED <<learningVars, blocked_entities, combiner_weights,
                       policyVars, result, lock>>

OrchestrateAdjust ==
    \E th \in Threads, e \in ThreadEntities, t \in OrchestrateTypes,
       base \in OrchestrateScores :
        orchestrate_adjust(th, e, t, base)

OrchestrateUpdateWeights ==
    \E th \in Threads : orchestrate_update_weights(th)

OrchestrateDecideAndAct ==
    \E th \in Threads : orchestrate_decide_and_act(th)

CombineScoresRules ==
    \E th \in Threads, in \in CombineInputs : combine_scores_rules(th, in)

CombineScoresNlp == \E th \in Threads : combine_scores_nlp(th)

CombineScoresAnomaly == \E th \in Threads : combine_scores_anomaly(th)

NextRequestThreads ==
    \/ FeedbackAcquire
    \/ FeedbackLocked
    \/ FeedbackIsBlocked
    \/ FeedbackUnblock
    \/ OrchestrateAdjust
    \/ OrchestrateUpdateWeights
    \/ OrchestrateDecideAndAct
    \/ CombineScoresRules
    \/ CombineScoresNlp
    \/ CombineScoresAnomaly

SpecRequestThreads == Init /\ [][NextRequestThreads]_vars

(***************************************************************************)
(* C18: the blocked set shares the synchronization of the learning state.  *)
(* No interleaving of a safe feedback for entity E with a concurrent       *)
(* analysis of E ends with the feedback completed (E whitelisted, its      *)
(* unblock check made) while E is in blocked_entities because of an        *)
(* analysis that read the whitelist before the feedback was applied (its   *)
(* adjustment found E on no list) and blocked E; no other analysis of E    *)
(* is made.                                                                *)
(***************************************************************************)
C18_BlockedSetSynchronized ==
    \A f, a \in Threads :
        (/\ threads[f].pc = "done"
         /\ threads[f].op = "submit_feedback"
         /\ threads[f].feedback = SAFE
         /\ threads[a].pc = "done"
         /\ threads[a].op = "orchestrate"
         /\ threads[a].entity_id = threads[f].entity_id
         /\ threads[a].entity_type = threads[f].entity_type
         /\ check_whitelist(threads[f].entity_id, threads[f].entity_type)
         /\ threads[a].reasons = <<>>
         /\ threads[a].response.should_block
         /\ \A b \in Threads \ {a} :
                threads[b].pc = "idle" \/ threads[b].op # "orchestrate")
        => threads[a].entity_id \notin blocked_entities

(***************************************************************************)
(* C19: each combine uses a snapshot of the weights.  The result of a      *)
(* combine_scores call is the weighted sum under one single weight map     *)
(* that the combiner held while the call ran; an update_weights of         *)
(* another request never changes some but not all of the weights the call  *)
(* reads.                                                                  *)
(***************************************************************************)
C19_CombineUsesSnapshot ==
    \A c \in Threads :
        (threads[c].pc = "done" /\ threads[c].op = "combine_scores")
        => \E w \in threads[c].held :
               /\ threads[c].read = w
               /\ threads[c].response =
                     combine_scores(threads[c].scores[1], threads[c].scores[2],
                                    threads[c].scores[3], threads[c].scores[4],
                                    w)

(***************************************************************************)
(* Shutdown and start: the lifespan handler calls save_data, and the next  *)
(* process constructs its engines afresh; LearningEngine.__init__ ends     *)
(* with load_data.  The log of warnings is kept.                           *)
(***************************************************************************)
restart ==
    LET d == save_data(whitelist, blacklist, feedback_history, metrics,
                       weight_adjustments, fraud_reports, analysis_history,
                       user_settings)
        fresh == load_data(d)
    IN  /\ disk' = d
        /\ whitelist' = fresh.whitelist
        /\ blacklist' = fresh.blacklist
        /\ feedback_history' = fresh.feedback_history
        /\ metrics' = fresh.metrics
        /\ weight_adjustments' = fresh.weight_adjustments
        /\ fraud_reports' = fresh.fraud_reports
        /\ analysis_history' = fresh.analysis_history
        /\ user_settings' = fresh.user_settings
        /\ blocked_entities' = {}
        /\ combiner_weights' = DefaultWeights
        /\ low_threshold' = 40
        /\ medium_threshold' = 70
        /\ high_threshold' = 100
        /\ result' = [op |-> "restart"]
        /\ UNCHANGED <<auto_blacklist_log, threadVars>>

Restart ==
    /\ result.op # "restart"
    /\ restart

\* Feedback on e1 before its first report, then reports of e1: of type
\* urls up to the threshold, of either type after it.
PersistTypes == {"urls", "domains"}

PersistFeedback ==
    \E v \in ReportFeedbackVerdicts, s \in ReportFeedbackScores, u \in Users :
        /\ Len(feedback_history) < MaxReportFeedback
        /\ fraud_reports["e1"] = <<>>
        /\ submit_feedback("e1", "urls", v, s, u)
        /\ UNCHANGED threadVars

PersistReport ==
    \E t \in PersistTypes, u \in Users :
        /\ Len(fraud_reports["e1"]) < fraud_report_threshold + MaxOverThreshold
        /\ t # "urls" => Len(fraud_reports["e1"]) >= fraud_report_threshold
        /\ report_fraud_endpoint("e1", t, u)
        /\ UNCHANGED threadVars

NextPersistence == PersistFeedback \/ PersistReport \/ Restart

SpecPersistence == Init /\ [][NextPersistence]_vars

analysis_history_cap == 1000

\* "[a for a in self.analysis_history if a['user_id'] == user_id]"
user_analyses(history, user_id) ==
    SelectSeq(history, LAMBDA a : a.user_id = user_id)

\* min(..., key=lambda x: x['timestamp']): the first of the entries of the
\* user with the least timestamp.
oldest_user_analysis(history, user_id) ==
    LET ua == user_analyses(history, user_id)
        i == CHOOSE i \in DOMAIN ua :
                 /\ \A j \in DOMAIN ua : ua[i].timestamp <= ua[j].timestamp
                 /\ \A j \in 1..(i - 1) : ua[j].timestamp > ua[i].timestamp
    IN  ua[i]

\* list.remove(x): the list without its first element equal to x.
list_remove(q, x) ==
    LET i == CHOOSE i \in DOMAIN q :
                 q[i] = x /\ \A j \in 1..(i - 1) : q[j] # x
    IN  SubSeq(q, 1, i - 1) \o SubSeq(q, i + 1, Len(q))

\* The history after add_analysis_history has appended the entry and cut
\* the entries of its user back to the cap.
capped_history(history, entry) ==
    LET appended == Append(history, entry)
    IN  IF Len(user_analyses(appended, entry.user_id)) > analysis_history_cap
        THEN list_remove(appended,
                         oldest_user_analysis(appended, entry.user_id))
        ELSE appended

\* add_analysis_history that drops the first entry of the list at the cap.
add_analysis_history_drop_first(analysis_id, entity, risk_score, user_id, timestamp) ==
    LET entry == [user_id |-> user_id, risk_score |-> risk_score,
                  timestamp |-> timestamp, entity |-> entity,
                  id |-> analysis_id]
        appended == Append(analysis_history, entry)
    IN  /\ analysis_history' =
              IF Len(user_analyses(appended, user_id)) > analysis_history_cap
              THEN Tail(appended)
              ELSE appended
        /\ disk' = IF Len(analysis_history') % 50 = 0
                   THEN save_data(whitelist, blacklist, feedback_history,
                                  metrics, weight_adjustments, fraud_reports,
                                  analysis_history', user_settings)
                   ELSE disk
        /\ UNCHANGED <<whitelist, blacklist, feedback_history, metrics,
                       weight_adjustments, fraud_reports, user_settings,
                       auto_blacklist_log>>

\* The state change of add_analysis_history (under the engine lock).  Of
\* the entry, the id, the entity, the score, the user and the timestamp are
\* kept.
add_analysis_history(analysis_id, entity, risk_score, user_id, timestamp) ==
    LET entry == [user_id |-> user_id, risk_score |-> risk_score,
                  timestamp |-> timestamp, entity |-> entity,
                  id |-> analysis_id]
    IN  /\ analysis_history' = capped_history(analysis_history, entry)
        /\ disk' = IF Len(analysis_history') % 50 = 0
                   THEN save_data(whitelist, blacklist, feedback_history,
                                  metrics, weight_adjustments, fraud_reports,
                                  analysis_history', user_settings)
                   ELSE disk
        /\ UNCHANGED <<whitelist, blacklist, feedback_history, metrics,
                       weight_adjustments, fraud_reports, user_settings,
                       auto_blacklist_log>>

\* The default settings get_user_settings answers for an unknown user.
DefaultSettings ==
    [risk_thresholds |-> [low |-> 40, medium |-> 70, high |-> 100],
     features |-> [url_analysis |-> TRUE, sms_analysis |-> TRUE,
                   transaction_analysis |-> TRUE, qr_code_scanning |-> TRUE,
                   auto_blocking |-> TRUE, learning_mode |-> TRUE,
                   notifications |-> TRUE],
     notification_preferences |-> [email_alerts |-> TRUE,
                                   push_notifications |-> TRUE,
                                   sms_alerts |-> FALSE],
     auto_submit_feedback |-> FALSE]

get_user_settings(user_id) ==
    IF user_id \in DOMAIN user_settings
    THEN user_settings[user_id]
    ELSE DefaultSettings

\* The "deep merge" of update_user_settings: dicts names the keys of
\* settings whose values are dictionaries.
merged_settings(current, settings, dicts) ==
    [key \in DOMAIN current \cup DOMAIN settings |->
        IF key \notin DOMAIN settings THEN current[key]
        ELSE IF key \in dicts /\ key \in DOMAIN current
        THEN settings[key] @@ current[key]
        ELSE settings[key]]

\* The state change of update_user_settings (under the engine lock).
update_user_settings(user_id, settings, dicts) ==
    /\ user_settings' =
          [u \in DOMAIN user_settings \cup {user_id} |->
              IF u = user_id
              THEN merged_settings(get_user_settings(user_id), settings, dicts)
              ELSE user_settings[u]]
    /\ disk' = save_data(whitelist, blacklist, feedback_history, metrics,
                         weight_adjustments, fraud_reports, analysis_history,
                         user_settings')
    /\ UNCHANGED <<whitelist, blacklist, feedback_history, metrics,
                   weight_adjustments, fraud_reports, analysis_history,
                   auto_blacklist_log>>

\* The state change of reset_learning (under the engine lock): the lists,
\* the feedback ledger, the metrics, the deltas and the reports are
\* cleared; the analysis history and the settings are kept.
reset_learning ==
    /\ whitelist' = [t \in DOMAIN whitelist |-> {}]
    /\ blacklist' = [t \in DOMAIN blacklist |-> {}]
    /\ feedback_history' = <<>>
    /\ metrics' = ZeroMetrics
    /\ weight_adjustments' = ZeroWeights
    /\ fraud_reports' = [e \in DOMAIN fraud_reports |-> <<>>]
    /\ disk' = save_data(whitelist', blacklist', feedback_history', metrics',
                         weight_adjustments', fraud_reports',
                         analysis_history, user_settings)
    /\ UNCHANGED <<analysis_history, user_settings, auto_blacklist_log>>

(***************************************************************************)
(* The analysis history of two users.  The first MaxEarlyAnalyses entries  *)
(* are of either user and may carry the timestamp of the entry before;     *)
(* then user u1 fills the history up to the cap, and around the cap both   *)
(* users add entries again.                                                *)
(***************************************************************************)
HistoryUsers == {"u1", "u2"}

\* The timestamp of a new history entry: utcnow() is not before the
\* timestamp of any entry and equals the latest one when tick is 0.
utcnow(history, tick) ==
    IF history = <<>> THEN 1
    ELSE history[Len(history)].timestamp + tick

\* uuid4: an id no entry of the history has (the newest entry is the last).
uuid4(history) ==
    IF history = <<>> THEN 1 ELSE history[Len(history)].id + 1

AddAnalysisHistory ==
    \E user_id \in HistoryUsers, tick \in {0, 1} :
        LET n == Len(analysis_history)
            analysis_id == uuid4(analysis_history)
            timestamp == utcnow(analysis_history, tick)
        IN  /\ analysis_id <= analysis_history_cap + MaxEarlyAnalyses
                                  + MaxOverCap
            /\ tick = 0 => n \in 1..(MaxEarlyAnalyses - 1)
            /\ user_id # "u1" =>
                  \/ n < MaxEarlyAnalyses
                  \/ analysis_id >= analysis_history_cap
            /\ add_analysis_history(analysis_id, "e1", 50, user_id,
                                    timestamp)
            /\ result' = [op |-> "add_analysis_history",
                          user_id |-> user_id, analysis_id |-> analysis_id,
                          timestamp |-> timestamp]
            /\ UNCHANGED <<blocked_entities, combiner_weights, policyVars,
                           threadVars>>

NextHistory == AddAnalysisHistory

SpecHistory == Init /\ [][NextHistory]_vars

(***************************************************************************)
(* C30: the per-user history is capped.  After any sequence of             *)
(* add_analysis_history calls no user has more than 1000 entries in        *)
(* analysis_history.  A call whose new entry takes its user u over 1000    *)
(* removes exactly one entry: an entry of u with the least timestamp among *)
(* the entries of u; every other call only appends.  Entries of other      *)
(* users are never removed.                                                *)
(***************************************************************************)
C30_HistoryCapped ==
    /\ [](\A u \in HistoryUsers :
             Len(user_analyses(analysis_history, u)) <= 1000)
    /\ [][result'.op = "add_analysis_history"
           => LET u == result'.user_id
                  appended ==
                      Append(analysis_history,
                             [user_id |-> u, risk_score |-> 50,
                              timestamp |-> result'.timestamp,
                              entity |-> "e1", id |-> result'.analysis_id])
                  over == Len(user_analyses(analysis_history, u)) + 1 > 1000
                  kept == analysis_history'
              IN  IF ~over THEN kept = appended
                  ELSE /\ Len(kept) = Len(appended) - 1
                       /\ LET i == CHOOSE i \in DOMAIN appended :
                                       /\ i <= Len(kept) => kept[i] # appended[i]
                                       /\ \A j \in 1..(i - 1) :
                                              kept[j] = appended[j]
                          IN  /\ kept = SubSeq(appended, 1, i - 1)
                                           \o SubSeq(appended, i + 1,
                                                     Len(appended))
                              /\ appended[i].user_id = u
                              /\ \A j \in DOMAIN appended :
                                     appended[j].user_id = u
                                     => appended[i].timestamp
                                            <= appended[j].timestamp
                       /\ \A o \in HistoryUsers \ {u} :
                              user_analyses(kept, o)
                                  = user_analyses(analysis_history, o)]_vars

\* User u1 has gone over the cap: its oldest entry has been removed, it
\* has 1000 entries, and the older entry of user u2 is still the first of
\* the history.
C30_Witness ==
    /\ result.op = "add_analysis_history"
    /\ result.user_id = "u1"
    /\ Len(user_analyses(analysis_history, "u1")) = 1000
    /\ Len(analysis_history) = 1001
    /\ analysis_history[1].user_id = "u2"
    /\ analysis_history[1].timestamp < analysis_history[2].timestamp
    /\ analysis_history[2].id > 2

(***************************************************************************)
(* The engine lock.  LearningEngine._lock is a threading.Lock (not         *)
(* re-entrant); five methods run their body in "with self._lock:".  A      *)
(* thread makes one call: it arrives at the with statement, acquires the   *)
(* lock when it is free, makes the calls its body makes to other methods   *)
(* of the engine while it holds the lock, and leaves the with statement,   *)
(* which releases the lock.                                                *)
(***************************************************************************)
LockSettings ==
    {[dicts |-> {"features"},
      values |-> [features |-> [auto_blocking |-> FALSE]]]}

\* The methods whose body is "with self._lock:", with save_data among them.
takes_lock_in_save_data(method) ==
    method \in {"process_feedback", "report_fraud", "add_analysis_history",
                "update_user_settings", "reset_learning", "save_data"}

\* The methods whose body is "with self._lock:".
takes_lock(method) ==
    method \in {"process_feedback", "report_fraud", "add_analysis_history",
                "update_user_settings", "reset_learning"}

\* The methods of the engine a locked body calls in the state it finds, in
\* the order of the calls.
nested_calls(c) ==
    CASE c.op = "process_feedback" ->
           (IF c.feedback = SAFE /\ was_flagged_as_fraud(c.original_risk_score)
            THEN <<"_adjust_weights_for_false_positive">>
            ELSE IF c.feedback = FRAUD
                    /\ ~was_flagged_as_fraud(c.original_risk_score)
            THEN <<"_adjust_weights_for_false_negative">>
            ELSE <<>>)
           \o (IF (Len(feedback_history) + 1) % 10 = 0
               THEN <<"save_data">> ELSE <<>>)
      [] c.op = "report_fraud" ->
           IF NumReportedEntities(
                  [fraud_reports EXCEPT ![c.entity_id] = Append(@, c)]) % 10 = 0
           THEN <<"save_data">> ELSE <<>>
      [] c.op = "add_analysis_history" ->
           IF Len(capped_history(analysis_history,
                                 [user_id |-> c.user_id, timestamp |-> 0]))
                  % 50 = 0
           THEN <<"save_data">> ELSE <<>>
      [] c.op = "update_user_settings" ->
           (IF c.user_id \notin DOMAIN user_settings
            THEN <<"get_user_settings">> ELSE <<>>) \o <<"save_data">>
      [] c.op = "reset_learning" -> <<"save_data">>

\* A call arrives at "with self._lock:".
lock_call(th, call) ==
    /\ threads[th].pc = "idle"
    /\ threads' = [threads EXCEPT ![th] = call]
    /\ UNCHANGED <<learningVars, blocked_entities, combiner_weights,
                   policyVars, result, lock>>

\* "with self._lock:" is entered: the thread waits until the lock is free.
lock_acquire(th) ==
    LET c == threads[th]
    IN  /\ c.pc = "with_lock"
        /\ lock = 0
        /\ lock' = th
        /\ threads' = [threads EXCEPT ![th] =
               [c EXCEPT !.pc = "locked", !.calls = nested_calls(c)]]
        /\ UNCHANGED <<learningVars, blocked_entities, combiner_weights,
                       policyVars, result>>

\* The body calls a method of the engine while it holds the lock; a callee
\* that takes the lock waits until it is free.
lock_nested_call(th) ==
    LET c == threads[th]
    IN  /\ c.pc = "locked"
        /\ c.calls # <<>>
        /\ takes_lock(Head(c.calls)) => lock = 0
        /\ threads' = [threads EXCEPT ![th] =
               [c EXCEPT !.calls = Tail(c.calls)]]
        /\ UNCHANGED <<learningVars, blocked_entities, combiner_weights,
                       policyVars, result, lock>>

\* The body has made its calls: its state change has been made, and the
\* with statement is left, which releases the lock.
lock_release(th) ==
    LET c == threads[th]
    IN  /\ c.pc = "locked"
        /\ c.calls = <<>>
        /\ lock = th
        /\ CASE c.op = "process_feedback" ->
                  process_feedback(c.entity_id, c.entity_type, c.feedback,
                                   c.original_risk_score, c.user_id)
             [] c.op = "report_fraud" ->
                  report_fraud(c.entity_id, c.entity_type, c.user_id)
             [] c.op = "add_analysis_history" ->
                  add_analysis_history(c.analysis_id, c.entity_id,
                                       c.original_risk_score, c.user_id,
                                       utcnow(analysis_history, c.tick))
             [] c.op = "update_user_settings" ->
                  update_user_settings(c.user_id, c.settings.values,
                                       c.settings.dicts)
             [] c.op = "reset_learning" -> reset_learning
        /\ lock' = 0
        /\ threads' = [threads EXCEPT ![th] = [c EXCEPT !.pc = "done"]]
        /\ UNCHANGED <<blocked_entities, combiner_weights, policyVars,
                       result>>

LockedProcessFeedback ==
    \E th \in Threads, v \in ThreadVerdicts, u \in Users :
        lock_call(th, [original_risk_score |-> 50, entity_id |-> "e1",
                       entity_type |-> "urls", feedback |-> v,
                       user_id |-> u, op |-> "process_feedback",
                       pc |-> "with_lock", calls |-> <<>>])

LockedReportFraud ==
    \E th \in Threads, u \in Users :
        lock_call(th, [entity_id |-> "e1", entity_type |-> "urls",
                       user_id |-> u, op |-> "report_fraud",
                       pc |-> "with_lock", calls |-> <<>>])

LockedAddAnalysisHistory ==
    \E th \in Threads, u \in Users, tick \in {1} :
        lock_call(th, [original_risk_score |-> 50, entity_id |-> "e1",
                       user_id |-> u, op |-> "add_analysis_history",
                       pc |-> "with_lock", analysis_id |-> th,
                       tick |-> tick, calls |-> <<>>])

LockedUpdateUserSettings ==
    \E th \in Threads, u \in Users, settings \in LockSettings :
        lock_call(th, [user_id |-> u, op |-> "update_user_settings",
                       pc |-> "with_lock", settings |-> settings,
                       calls |-> <<>>])

LockedResetLearning ==
    \E th \in Threads :
        lock_call(th, [op |-> "reset_learning", pc |-> "with_lock",
                       calls |-> <<>>])

LockAcquire == \E th \in Threads : lock_acquire(th)

LockNestedCall == \E th \in Threads : lock_nested_call(th)

LockRelease == \E th \in Threads : lock_release(th)

NextLock ==
    \/ LockedProcessFeedback
    \/ LockedReportFraud
    \/ LockedAddAnalysisHistory
    \/ LockedUpdateUserSettings
    \/ LockedResetLearning
    \/ LockAcquire
    \/ LockNestedCall
    \/ LockRelease

SpecLock == Init /\ [][NextLock]_vars

\* Fair scheduling: a thread that can take a step of its call does not
\* wait for ever.
SpecLockFair ==
    /\ SpecLock
    /\ \A th \in Threads :
           WF_vars(lock_acquire(th) \/ lock_nested_call(th)
                   \/ lock_release(th))

(***************************************************************************)
(* C24: every call completes.  Under fair scheduling, a call of            *)
(* process_feedback, report_fraud, add_analysis_history,                   *)
(* update_user_settings or reset_learning that has arrived at the engine   *)
(* lock acquires it, finishes and has released it: the lock is held only   *)
(* by a thread inside a locked body, and the calls a body makes while it   *)
(* holds the lock (save_data, get_user_settings, the weight adjusters) do  *)
(* not wait for the lock.                                                  *)
(***************************************************************************)
C24_EveryCallCompletes ==
    /\ [](\A th \in Threads :
             /\ lock = th => threads[th].pc = "locked"
             /\ threads[th].pc = "locked" => lock = th)
    /\ \A th \in Threads :
           (threads[th].pc = "with_lock") ~> (threads[th].pc = "done")

\* Every thread has completed a call; one of them was update_user_settings,
\* which called get_user_settings and save_data under the lock, and the
\* settings are on disk.
C24_Witness ==
    /\ \A th \in Threads : threads[th].pc = "done"
    /\ \E th \in Threads : threads[th].op = "update_user_settings"
    /\ \E th \in Threads : threads[th].op = "process_feedback"
    /\ lock = 0
    /\ disk # <<>>
    /\ disk.user_settings = user_settings
    /\ user_settings # <<>>

(***************************************************************************)
(* risk_scoring.py and ml_reasoning.py: the detectors.  A piece of         *)
(* evidence is modelled by the outcomes of the tests the detector makes    *)
(* on it; raises says that a library call on it raises.                    *)
(***************************************************************************)
AppendIf(q, cond, x) == IF cond THEN Append(q, x) ELSE q

\* What a detector call comes to: it returns (score, indicators), or an
\* exception leaves it.
returned(score, indicators) ==
    [score |-> score, indicators |-> indicators, raised |-> FALSE]

raises(exception) == [raised |-> TRUE, exception |-> exception]

\* A URL on which urlparse raises ValueError, such as 'http://['.
UnparseableUrl == [raises |-> TRUE]

\* The empty string: no scheme, an empty netloc, and detect_typosquatting
\* finds the empty domain contained in the first brand name.
EmptyUrl ==
    [raises |-> FALSE, https |-> FALSE, ip_address |-> FALSE,
     suspicious_domain |-> FALSE, suspicious_count |-> 0,
     is_legitimate |-> FALSE, subdomain_count |-> 0 - 1, long |-> FALSE,
     phishing_keyword_count |-> 0, is_typosquatting |-> TRUE,
     homograph |-> FALSE, payment_term |-> FALSE]

\* The URLs that parse: at most MaxUrlSignals of the yes/no tests succeed.
UrlSignals ==
    {"https", "ip_address", "suspicious_domain", "is_legitimate", "long",
     "is_typosquatting", "homograph", "payment_term"}

UrlEvidence ==
    {UnparseableUrl} \cup
    {url \in [raises : {FALSE}, https : BOOLEAN, ip_address : BOOLEAN,
              suspicious_domain : BOOLEAN, suspicious_count : {0, 4},
              is_legitimate : BOOLEAN, subdomain_count : {0 - 1, 3},
              long : BOOLEAN, phishing_keyword_count : {0, 1, 2},
              is_typosquatting : BOOLEAN, homograph : BOOLEAN,
              payment_term : BOOLEAN] :
        Cardinality({f \in UrlSignals : url[f]}) <= MaxUrlSignals}

\* calculate_url_risk_score: (risk_score, indicators) of the returned tuple.
calculate_url_risk_score(url) ==
    IF url.raises
    THEN returned(Min(50, 100), <<"Unable to parse URL">>)
    ELSE LET s1 == IF ~url.https THEN 20 ELSE 0
             i1 == AppendIf(<<>>, ~url.https, "Non-HTTPS connection")
             s2 == s1 + (IF url.ip_address THEN 30 ELSE 0)
             i2 == AppendIf(i1, url.ip_address, "IP address used")
             s3 == s2 + (IF url.suspicious_domain THEN 25 ELSE 0)
             i3 == AppendIf(i2, url.suspicious_domain, "URL shortener")
             s4 == s3 + (IF url.suspicious_count > 0
                         THEN Min(url.suspicious_count * 10, 30) ELSE 0)
             i4 == AppendIf(i3, url.suspicious_count > 0,
                            "suspicious keywords")
             s5 == IF url.is_legitimate THEN Max(0, s4 - 30) ELSE s4
             s6 == s5 + (IF url.subdomain_count > 2 THEN 15 ELSE 0)
             i6 == AppendIf(i4, url.subdomain_count > 2, "Multiple subdomains")
             s7 == s6 + (IF url.long THEN 10 ELSE 0)
             i7 == AppendIf(i6, url.long, "Unusually long URL")
             s8 == s7 + (IF url.phishing_keyword_count >= 2 THEN 30
                         ELSE IF url.phishing_keyword_count = 1 THEN 15
                         ELSE 0)
             i8 == AppendIf(i7, url.phishing_keyword_count >= 1,
                            "Phishing keyword in domain")
             s9 == s8 + (IF url.is_typosquatting THEN 50 ELSE 0)
             i9 == AppendIf(i8, url.is_typosquatting, "Typosquatting")
             s10 == s9 + (IF url.homograph THEN 45 ELSE 0)
             i10 == AppendIf(i9, url.homograph, "Homograph attack")
             fake == url.payment_term /\ ~url.is_legitimate
             s11 == s10 + (IF fake THEN 20 ELSE 0)
             i11 == AppendIf(i10, fake, "Fake payment page")
         IN  returned(Min(s11, 100), i11)

\* QR payloads: empty (None or ''), or the outcome of the tests made on a
\* non-empty one.  amount is the am= parameter: absent, at most 10000,
\* above 10000, or digits and dots that float() rejects ('1.2.3').
EmptyQr == [empty |-> TRUE]

QrUrls ==
    {UnparseableUrl,
     [raises |-> FALSE, https |-> TRUE, ip_address |-> FALSE,
      suspicious_domain |-> FALSE, suspicious_count |-> 0,
      is_legitimate |-> FALSE, subdomain_count |-> 0, long |-> FALSE,
      phishing_keyword_count |-> 0, is_typosquatting |-> FALSE,
      homograph |-> FALSE, payment_term |-> FALSE]}

QrEvidence ==
    {EmptyQr} \cup
    [empty : {FALSE}, kind : {"upi", "url", "other"}, collect : BOOLEAN,
     amount : {"none", "low", "high", "malformed"}, personal_upi : BOOLEAN,
     url : QrUrls, keywords : BOOLEAN]

\* risk_scoring.analyze_qr_code; a URL indicator is kept as the pair of the
\* prefix and the indicator of the URL scorer.
analyze_qr_code(qr_data) ==
    IF qr_data.empty
    THEN returned(0, <<>>)
    ELSE IF qr_data.kind = "upi" /\ qr_data.amount = "malformed"
    THEN raises("ValueError")
    ELSE LET u == calculate_url_risk_score(qr_data.url)
             s1 == IF qr_data.kind = "upi"
                   THEN (IF qr_data.collect THEN 70 ELSE 0)
                        + (IF qr_data.amount = "high" THEN 20 ELSE 0)
                        + (IF qr_data.personal_upi THEN 15 ELSE 0)
                   ELSE IF qr_data.kind = "url"
                   THEN (u.score * 8) \div 10
                   ELSE 0
             i1 == IF qr_data.kind = "upi"
                   THEN AppendIf(
                            AppendIf(
                                AppendIf(<<>>, qr_data.collect,
                                         "COLLECT REQUEST"),
                                qr_data.amount = "high", "High amount in QR"),
                            qr_data.personal_upi,
                            "Personal phone number UPI in QR")
                   ELSE IF qr_data.kind = "url"
                   THEN [k \in DOMAIN u.indicators |->
                            <<"QR URL", u.indicators[k]>>]
                   ELSE <<>>
             s2 == s1 + (IF qr_data.keywords THEN 15 ELSE 0)
             i2 == AppendIf(i1, qr_data.keywords,
                            "Suspicious keywords in QR code")
         IN  returned(Min(s2, 100), i2)

\* SMS texts handed to RuleBasedEngine.analyze_sms: the summed weight of
\* the fraud keywords found, the number of urgency words, the sender, and
\* whether URLs and UPI ids are found.  The empty text has none of them.
SmsEvidence ==
    {m \in [empty : BOOLEAN, keyword_weight : {0, 15, 40},
            urgency_count : {0, 2}, sender : {"none", "suspicious", "phone"},
            has_urls : BOOLEAN, has_upi_ids : BOOLEAN] :
        m.empty => /\ m.keyword_weight = 0
                   /\ m.urgency_count = 0
                   /\ ~m.has_urls
                   /\ ~m.has_upi_ids}

\* RuleBasedEngine.analyze_sms
RuleBasedEngine_analyze_sms(message) ==
    LET s1 == message.keyword_weight
        i1 == AppendIf(<<>>, message.keyword_weight > 0, "Fraud keyword")
        s2 == s1 + (IF message.urgency_count >= 2 THEN 30 ELSE 0)
        i2 == AppendIf(i1, message.urgency_count >= 2,
                       "Multiple urgency words detected")
        s3 == s2 + (IF message.sender = "suspicious" THEN 25
                    ELSE IF message.sender = "phone" THEN 0 - 5 ELSE 0)
        i3 == AppendIf(i2, message.sender = "suspicious",
                       "Suspicious sender ID pattern")
        s4 == s3 + (IF message.has_urls THEN 20 ELSE 0)
        i4 == AppendIf(i3, message.has_urls, "Contains URL(s)")
        s5 == s4 + (IF message.has_upi_ids THEN 15 ELSE 0)
        i5 == AppendIf(i4, message.has_upi_ids, "Contains UPI ID(s)")
    IN  returned(s5, i5)

\* Domain details: empty (None or {}), or a dictionary.  ssl_valid is True,
\* False or None; creation_date is None, a string fromisoformat rejects, or
\* a date less than 30 days, less than 90 days or longer ago; ssl_issuer is
\* a missing key, None (the value DomainDetails.dict() gives for an omitted
\* field), Let's Encrypt or another issuer.
EmptyDomainInfo == [empty |-> TRUE]

\* DomainDetails().dict(): every field present and None.
AllNoneDomainInfo ==
    [empty |-> FALSE, ssl_valid |-> "None", creation_date |-> "None",
     ssl_issuer |-> "None"]

DomainEvidence ==
    {EmptyDomainInfo} \cup
    [empty : {FALSE}, ssl_valid : {"True", "False", "None"},
     creation_date : {"None", "unparseable", "new", "recent", "old"},
     ssl_issuer : {"absent", "None", "letsencrypt", "other"}]

\* analyze_domain_details: "domain_info.get('ssl_issuer', '').lower()"
\* raises AttributeError when the key is present with the value None.
analyze_domain_details(domain_info) ==
    IF domain_info.empty
    THEN returned(0, <<>>)
    ELSE IF domain_info.ssl_issuer = "None"
    THEN raises("AttributeError")
    ELSE LET s1 == IF domain_info.ssl_valid = "False" THEN 30 ELSE 0
             i1 == AppendIf(<<>>, domain_info.ssl_valid = "False",
                            "Invalid or expired SSL certificate")
             s2 == s1 + (IF domain_info.creation_date = "new" THEN 40
                         ELSE IF domain_info.creation_date = "recent" THEN 25
                         ELSE 0)
             i2 == AppendIf(
                       AppendIf(i1, domain_info.creation_date = "new",
                                "Very new domain"),
                       domain_info.creation_date = "recent",
                       "Recently created domain")
             s3 == s2 + (IF domain_info.ssl_issuer = "letsencrypt"
                         THEN 5 ELSE 0)
         IN  returned(s3, i2)

EmptyDeviceInfo == [empty |-> TRUE]

DeviceEvidence ==
    {EmptyDeviceInfo} \cup
    [empty : {FALSE}, is_new_device : BOOLEAN,
     sim_changed_recently : BOOLEAN, screen_sharing_apps_detected : BOOLEAN]

\* risk_scoring.analyze_device_security
analyze_device_security(device_info) ==
    IF device_info.empty
    THEN returned(0, <<>>)
    ELSE LET s == (IF device_info.is_new_device THEN 20 ELSE 0)
                  + (IF device_info.sim_changed_recently THEN 40 ELSE 0)
                  + (IF device_info.screen_sharing_apps_detected
                     THEN 50 ELSE 0)
             i == AppendIf(
                      AppendIf(
                          AppendIf(<<>>, device_info.is_new_device,
                                   "Transaction from NEW DEVICE"),
                          device_info.sim_changed_recently,
                          "Recent SIM card change detected"),
                      device_info.screen_sharing_apps_detected,
                      "Screen sharing app detected")
         IN  returned(Min(s, 100), i)

\* One call of a detector; result holds the evidence and what came back.
detector_call(op, evidence, outcome) ==
    /\ result' = [op |-> op, evidence |-> evidence, outcome |-> outcome]
    /\ UNCHANGED <<learningVars, blocked_entities, combiner_weights,
                   policyVars, threadVars>>

CalculateUrlRiskScore ==
    \E url \in UrlEvidence :
        detector_call("calculate_url_risk_score", url,
                      calculate_url_risk_score(url))

AnalyzeQrCode ==
    \E qr_data \in QrEvidence :
        detector_call("analyze_qr_code", qr_data, analyze_qr_code(qr_data))

AnalyzeSms ==
    \E message \in SmsEvidence :
        detector_call("analyze_sms", message,
                      RuleBasedEngine_analyze_sms(message))

AnalyzeDomainDetails ==
    \E domain_info \in DomainEvidence :
        detector_call("analyze_domain_details", domain_info,
                      analyze_domain_details(domain_info))

AnalyzeDeviceSecurity ==
    \E device_info \in DeviceEvidence :
        detector_call("analyze_device_security", device_info,
                      analyze_device_security(device_info))

NextDetectors ==
    \/ CalculateUrlRiskScore
    \/ AnalyzeQrCode
    \/ AnalyzeSms
    \/ AnalyzeDomainDetails
    \/ AnalyzeDeviceSecurity

SpecDetectors == Init /\ [][NextDetectors]_vars

\* The evidence of a detector call is missing or unparseable: a URL that
\* does not parse, an empty QR payload, an empty text without a sender,
\* empty domain details or domain details with every field omitted, empty
\* device information.
MissingOrUnparseable(op, evidence) ==
    \/ op = "calculate_url_risk_score" /\ evidence.raises
    \/ op = "analyze_qr_code" /\ evidence.empty
    \/ op = "analyze_sms" /\ evidence.empty /\ evidence.sender = "none"
    \/ op = "analyze_domain_details"
          /\ (evidence.empty \/ evidence = AllNoneDomainInfo)
    \/ op = "analyze_device_security" /\ evidence.empty

DetectorOps ==
    {"calculate_url_risk_score", "analyze_qr_code", "analyze_sms",
     "analyze_domain_details", "analyze_device_security"}

(***************************************************************************)
(* C21: detectors degrade to zero on bad evidence.  A detector that        *)
(* receives missing or unparseable evidence (the URL scorer a URL that     *)
(* fails to parse; the text, QR, domain and device analyzers empty input)  *)
(* does not raise and returns score 0 with an empty indicator list.        *)
(***************************************************************************)
C21_DetectorsDegradeToZero ==
    (/\ result.op \in DetectorOps
     /\ MissingOrUnparseable(result.op, result.evidence))
    => /\ ~result.outcome.raised
       /\ result.outcome.score = 0
       /\ result.outcome.indicators = <<>>

NextLearning == SubmitFeedback \/ AdjustRiskScore

SpecLearning == Init /\ [][NextLearning]_vars

(***************************************************************************)
(* The whole system.                                                       *)
(***************************************************************************)
Next ==
    \/ SubmitFeedback
    \/ AdjustRiskScore
    \/ ReportFraud
    \/ AnalyzeUrl
    \/ ClassifyRisk
    \/ DetermineAction
    \/ AdjustThreshold

Spec == Init /\ [][Next]_vars

(***************************************************************************)
(* C1: blacklist precedence.  Whenever adjust_risk_score is called for an  *)
(* entity that is in the blacklist of the given type, the adjusted score   *)
(* is min(100, s + 60) of the original score s, also when the entity is    *)
(* whitelisted too, and the blacklist reason is the last one appended      *)
(* (after the whitelist reason, if any).                                   *)
(***************************************************************************)
C1_BlacklistPrecedence ==
    (/\ result.op = "adjust_risk_score"
     /\ check_blacklist(result.entity_id, result.entity_type))
    => /\ result.adjusted_score = Min(100, result.original_score + 60)
       /\ result.reasons =
             IF check_whitelist(result.entity_id, result.entity_type)
             THEN <<"Whitelisted", "Blacklisted">>
             ELSE <<"Blacklisted">>

\* Whitelisted, then blacklisted, queried with 50: the answer is 100.
C1_Witness ==
    /\ result.op = "adjust_risk_score"
    /\ check_whitelist(result.entity_id, result.entity_type)
    /\ check_blacklist(result.entity_id, result.entity_type)
    /\ result.original_score = 50
    /\ result.adjusted_score = 100

(***************************************************************************)
(* C4: a feedback whose entity_type is not one of the five list keys is    *)
(* rejected with a validation error (status 400) and leaves whitelist,     *)
(* blacklist, metrics, weight deltas and the feedback ledger unchanged.    *)
(***************************************************************************)
C4_UnknownTypeFeedbackRejected ==
    [][(/\ result'.op = "submit_feedback"
        /\ result'.entity_type \notin EntityTypes)
       => /\ result'.status = 400
          /\ UNCHANGED <<whitelist, blacklist, metrics, weight_adjustments,
                         feedback_history>>]_vars

=============================================================================
